---- MODULE Spec2Model ----
(***************************************************************************)
(* Model of the video merge queue and merge executor of the bot:           *)
(*   handlers/video_merge_manager.py    (VideoMetadata, MergeQueue,        *)
(*                                       MERGE_QUEUE_DB)                   *)
(*   handlers/video_merge_processor.py  (process_merge_video,              *)
(*                                       execute_smart_merge, uploads)     *)
(*   handlers/video_merge_callbacks.py  (handle_merge_callbacks)           *)
(*   handlers/start.py                  (start_command)                    *)
(*   handlers/file_handler.py           (handle_files)                     *)
(*                                                                         *)
(* Handlers are asyncio coroutines on one event loop: the code between two *)
(* awaits runs without interruption, so one action is one such stretch of  *)
(* a handler, and a handler that is suspended at an await is a task with a *)
(* pc.  Consecutive awaits between which the handler touches no shared     *)
(* state (queue, registry, user_data, files) are one suspension point, and *)
(* an await after which the handler only returns belongs to the stretch    *)
(* before it.  Every webhook request awaits application.process_update in  *)
(* its own task (main.py, telegram_webhook), so handlers of one user do    *)
(* overlap.  Suspended handlers with equal local state are not told apart: *)
(* they form a bag.                                                        *)
(***************************************************************************)
EXTENDS Integers, Sequences, FiniteSets, Bags, TLC

\* ------------------------------------------------------------------ bounds
\* Handlers (coroutines) that may be suspended at the same time.
MaxTasks == 2

\* ------------------------------------------------------------- input sets
Users == {1}

\* The upload messages a user may send: the file name Telegram declares and
\* the id of the message.  The same message may reach the bot more than once.
Messages ==
    { [file_name |-> "a.mp41", msg_id |-> 2],
      [file_name |-> "a.mp4",  msg_id |-> 12],
      [file_name |-> "a.mp4",  msg_id |-> 3] }

\* Results of processor.get_video_duration (0: the probe failed).
Durations == {0, 5}

\* Size of the merged output as the code classifies it:
\*   "absent"  no file, "small" < 1024 bytes, "ok" <= 50 MB, "big" > 50 MB.
Sizes == {"absent", "small", "ok", "big"}

NoQueue == 0
NoMessage == 0

\* A queue object is registered under the id of its user; an object that
\* /start removed from the registry while handlers still hold it lives on
\* under one of StaleIds.
StaleIds == {Cardinality(Users) + i : i \in 1..MaxTasks}
QueueIds == Users \cup StaleIds

VARIABLES
    MERGE_QUEUE_DB,  \* user -> queue object (NoQueue: no entry)
    queues,          \* queue object -> its fields
    user_data,       \* user -> context.user_data (the keys the merge reads)
    fs,              \* the temp folder
    tasks,           \* the suspended handlers
    ev               \* what the last step did, for the steps a property names

vars == <<MERGE_QUEUE_DB, queues, user_data, fs, tasks, ev>>

Min(S) == CHOOSE x \in S : \A y \in S : x <= y

\* --------------------------------------------------------- VideoMetadata
ToStr(n) == ToString(n)

\* VideoMetadata.__init__: file_id is the base name of the path followed by
\* the decimal message id; the file lives at TEMP_FOLDER/<file_name>.
VideoMetadata(m, dur) ==
    [ msg_id    |-> m.msg_id,
      file_name |-> m.file_name,
      file_id   |-> m.file_name \o ToStr(m.msg_id),
      duration  |-> dur ]

file_path(v) == v.file_name

PathsOf(videos) == {file_path(videos[i]) : i \in 1..Len(videos)}

\* ------------------------------------------------------------ MergeQueue
MaxVideos == 20

\* The id of the summary message the bot sent last.
SummaryMessage == 1

MergeQueue_init ==
    [ videos |-> <<>>, queue_message_id |-> NoMessage, is_merging |-> FALSE ]

add_video_NoIdentityCheck(queue, metadata) ==
    IF Len(queue.videos) >= MaxVideos THEN queue
    ELSE IF metadata.duration = 0 THEN queue
    ELSE [queue EXCEPT !.videos = Append(@, metadata)]

add_video_NoCapacityCheck(queue, metadata) ==
    IF \E i \in 1..Len(queue.videos) : queue.videos[i].file_id = metadata.file_id
    THEN queue
    ELSE IF metadata.duration = 0 THEN queue
    ELSE [queue EXCEPT !.videos = Append(@, metadata)]

add_video_NoDurationCheck(queue, metadata) ==
    IF \E i \in 1..Len(queue.videos) : queue.videos[i].file_id = metadata.file_id
    THEN queue
    ELSE IF Len(queue.videos) >= MaxVideos THEN queue
    ELSE [queue EXCEPT !.videos = Append(@, metadata)]

\* MergeQueue.add_video: the queue after the call; the call returns True
\* exactly when the item was appended.
add_video(queue, metadata) ==
    IF \E i \in 1..Len(queue.videos) : queue.videos[i].file_id = metadata.file_id
    THEN queue
    ELSE IF Len(queue.videos) >= MaxVideos THEN queue
    ELSE IF metadata.duration = 0 THEN queue
    ELSE [queue EXCEPT !.videos = Append(@, metadata)]

\* MergeQueue.add_video, lines 161, 165, 169: the warning the call logs before
\* it returns False ("none": it appended and returned True).
add_video_warning(queue, metadata) ==
    IF \E i \in 1..Len(queue.videos) : queue.videos[i].file_id = metadata.file_id
    THEN "identity"
    ELSE IF Len(queue.videos) >= MaxVideos THEN "capacity"
    ELSE IF metadata.duration = 0 THEN "duration"
    ELSE "none"

\* list.pop(index) and the deletion of the popped item's file, without the
\* range test: a negative index counts from the end, any other index outside
\* the list raises.
remove_video_NoRangeCheck(queue, files, index) ==
    LET n == Len(queue.videos)
        at == IF index < 0 THEN n + index + 1 ELSE index + 1
    IN  IF at \in 1..n
        THEN [ queue |-> [queue EXCEPT !.videos =
                              SubSeq(@, 1, at - 1) \o SubSeq(@, at + 1, n)],
               files |-> files \ {file_path(queue.videos[at])},
               result |-> "True" ]
        ELSE [ queue |-> queue, files |-> files, result |-> "IndexError" ]

\* MergeQueue.remove_video (index counts from 0): the queue and the files
\* after the call and the value it returns.
remove_video(queue, files, index) ==
    IF 0 <= index /\ index < Len(queue.videos)
    THEN [ queue |-> [queue EXCEPT !.videos =
                          SubSeq(@, 1, index) \o SubSeq(@, index + 2, Len(@))],
           files |-> files \ {file_path(queue.videos[index + 1])},
           result |-> "True" ]
    ELSE [ queue |-> queue, files |-> files, result |-> "False" ]

\* MergeQueue.move_video: the items at the two positions change places.
move_video(queue, from_idx, to_idx) ==
    IF /\ 0 <= from_idx /\ from_idx < Len(queue.videos)
       /\ 0 <= to_idx /\ to_idx < Len(queue.videos)
    THEN [ queue |-> [queue EXCEPT !.videos =
                          [@ EXCEPT ![from_idx + 1] = queue.videos[to_idx + 1],
                                    ![to_idx + 1] = queue.videos[from_idx + 1]]],
           result |-> "True" ]
    ELSE [ queue |-> queue, result |-> "False" ]

clear_all_KeepsHandle(queue, files) ==
    [ queue |-> [queue EXCEPT !.videos = <<>>, !.is_merging = FALSE],
      files |-> files \ PathsOf(queue.videos) ]

clear_all_KeepsFiles(queue, files) ==
    [ queue |-> MergeQueue_init, files |-> files ]

\* MergeQueue.clear_all: deletes every backing file, empties the list, resets
\* the message handle and the merge flag.
clear_all(queue, files) ==
    [ queue |-> [queue EXCEPT !.videos = <<>>,
                              !.queue_message_id = NoMessage,
                              !.is_merging = FALSE],
      files |-> files \ PathsOf(queue.videos) ]

AcquireGuard_Missing(queue) == queue

\* execute_smart_merge line 146.
AcquireGuard(queue) == [queue EXCEPT !.is_merging = TRUE]

ResetGuard_Missing(queue) == queue

\* execute_smart_merge lines 150, 156, 162: reset before a precondition return.
ResetGuard(queue) == [queue EXCEPT !.is_merging = FALSE]

FinallyRelease_Missing(queue) == queue

\* execute_smart_merge lines 221, 292, 314 and the finally clause, 396-397.
FinallyRelease(queue) == [queue EXCEPT !.is_merging = FALSE]

\* ------------------------------------------------------- suspended handlers
NoItem == [file_name |-> "", msg_id |-> 0]

\* A handler of handle_files suspended at pc, holding message m and (after
\* get_or_create_queue) queue object q.
UploadTask(u, q, pc, m) ==
    [ kind |-> "upload", user |-> u, q |-> q, pc |-> pc, item |-> m,
      mode |-> "none", why |-> "none", path |-> "none", thumb |-> FALSE ]

\* A call of execute_smart_merge suspended at pc: its queue object, the
\* upload_mode it read at line 148, the precondition that failed (pc "rej"),
\* the transport its output goes to and whether thumbnail_file is set
\* (pc "upload").
ExecTask(u, q, pc, mode, why, path, thumb) ==
    [ kind |-> "exec", user |-> u, q |-> q, pc |-> pc, item |-> NoItem,
      mode |-> mode, why |-> why, path |-> path, thumb |-> thumb ]

Suspended == BagToSet(tasks)
HasFreeSlot == BagCardinality(tasks) < MaxTasks
Spawn(ts, tk) == ts (+) SetToBag({tk})
Finish(ts, tk) == ts (-) SetToBag({tk})
Resume(ts, tk, next) == Spawn(Finish(ts, tk), next)

\* The handlers of ts that hold queue object q.
Holders(ts, q) == {tk \in BagToSet(ts) : tk.q = q}

\* An object nothing refers to any more is garbage: its cell is kept in the
\* constructor state.
Sweep(qs, ts) ==
    [i \in QueueIds |-> IF i \in StaleIds /\ Holders(ts, i) = {} THEN MergeQueue_init
                        ELSE qs[i]]

\* The handlers of ts with every reference to object `from` now under `to`.
Retarget(ts, from, to) ==
    LET Moved(tk) == IF tk.q = from THEN [tk EXCEPT !.q = to] ELSE tk
        Targets == {Moved(tk) : tk \in BagToSet(ts)}
    IN  [x \in Targets |-> ts[CHOOSE tk \in BagToSet(ts) : Moved(tk) = x]]

\* get_or_create_queue: the queue object of the user, a new one (in its
\* constructor state) when the registry has no entry.
get_or_create_queue(u) == u

\* ----------------------------------------------------------------- events
NoEvent ==
    [ t |-> "none", user |-> 0, q |-> NoQueue, exit |-> "none",
      queue |-> MergeQueue_init, item |-> NoItem, paths |-> {}, made |-> {},
      arg |-> <<>> ]

\* execute_smart_merge up to its first await: "busy", the precondition that
\* failed, or "accepted"; queue: the object as the stretch leaves it.
Begun(u, q, exit, queue) ==
    [NoEvent EXCEPT !.t = "begin", !.user = u, !.q = q, !.exit = exit, !.queue = queue]

\* The return of execute_smart_merge: the exit path taken, the queue object
\* the call ran on as the call leaves it, the backing files of the items it
\* held when the last stretch began, and the working files the call wrote.
Returned(u, q, exit, queue, paths, made) ==
    [NoEvent EXCEPT !.t = "ret", !.user = u, !.q = q, !.exit = exit, !.queue = queue,
                    !.paths = paths, !.made = made]

\* The end of process_merge_video's add: the message offered, what became of
\* it and the queue after the call.
Offered(u, q, m, exit, queue) ==
    [NoEvent EXCEPT !.t = "add", !.user = u, !.q = q, !.exit = exit, !.queue = queue,
                    !.item = m]

\* execute_smart_merge got past the manifest check of line 214 on queue
\* object q and goes on to ffmpeg.
Built(u, q) == [NoEvent EXCEPT !.t = "built", !.user = u, !.q = q]

\* execute_smart_merge on queue object q got past the checks of lines 270
\* and 295 (ffmpeg returned returncode, the output is valid) and awaits its
\* transport.
Validated(u, q, returncode) ==
    [NoEvent EXCEPT !.t = "validated", !.user = u, !.q = q, !.arg = <<returncode>>]

\* merge_clear ran on queue object q.
Cleared(u, q) == [NoEvent EXCEPT !.t = "clear", !.user = u, !.q = q]

\* The upload_mode dicts the handlers store: {"engine": "telegram",
\* "format": "video"} (start.py 60-63, callback_handler.py 261-264) and
\* {"engine": "rclone", "configured": True}; "none" is the missing key.
UploadModes == {"none", "telegram", "rclone"}
HasFormat(mode) == mode = "telegram"

\* pyrogram imported at module load (video_merge_processor.py 17-22).
PYROGRAM_AVAILABLE == TRUE

\* ------------------------------------------------------------------ Init
Init ==
    /\ MERGE_QUEUE_DB = [u \in Users |-> NoQueue]
    /\ queues = [i \in QueueIds |-> MergeQueue_init]
    /\ user_data = [u \in Users |-> [upload_mode |-> "none"]]
    /\ fs = [videos |-> {}, concat |-> FALSE, out |-> "absent", thumb |-> FALSE]
    /\ tasks = EmptyBag
    /\ ev = NoEvent

\* ------------------------------------------------- handlers without awaits
\* start_command, lines 23-63: the queue of the user is cleared and its
\* registry entry removed; user_data is cleared and the default upload mode
\* stored.  Handlers that hold the removed object keep it.
start_command(u) ==
    LET c == clear_all(queues[u], fs.videos)
        s == Min(StaleIds \ {tk.q : tk \in Suspended})
    IN  /\ MERGE_QUEUE_DB' = [MERGE_QUEUE_DB EXCEPT ![u] = NoQueue]
        /\ IF MERGE_QUEUE_DB[u] = NoQueue
           THEN UNCHANGED <<queues, fs, tasks>>
           ELSE /\ fs' = [fs EXCEPT !.videos = c.files]
                /\ IF Holders(tasks, u) = {}
                   THEN /\ queues' = [queues EXCEPT ![u] = MergeQueue_init]
                        /\ UNCHANGED tasks
                   ELSE /\ queues' = [queues EXCEPT ![u] = MergeQueue_init, ![s] = c.queue]
                        /\ tasks' = Retarget(tasks, u, s)
        /\ user_data' = [user_data EXCEPT ![u] = [upload_mode |-> "telegram"]]
        /\ ev' = NoEvent

\* handle_callback_query, "upload_telegram" and "upload_rclone" (with a stored
\* configuration), and handle_files after a configuration upload.
select_upload_mode(u, mode) ==
    /\ user_data[u].upload_mode # mode
    /\ user_data' = [user_data EXCEPT ![u].upload_mode = mode]
    /\ ev' = NoEvent
    /\ UNCHANGED <<MERGE_QUEUE_DB, queues, fs, tasks>>

\* handle_merge_callbacks, "merge_clear", lines 38-43.
merge_clear(u) ==
    LET q == get_or_create_queue(u)
        c == clear_all(queues[q], fs.videos)
    IN  /\ MERGE_QUEUE_DB' = [MERGE_QUEUE_DB EXCEPT ![u] = q]
        /\ queues' = [queues EXCEPT ![q] = c.queue]
        /\ fs' = [fs EXCEPT !.videos = c.files]
        /\ ev' = Cleared(u, q)
        /\ UNCHANGED <<user_data, tasks>>

\* handle_merge_callbacks, "merge_confirm", lines 45-75: reads the flag, the
\* length and the upload mode, and shows the next menu.
merge_confirm(u) ==
    LET q == get_or_create_queue(u)
    IN  /\ MERGE_QUEUE_DB' = [MERGE_QUEUE_DB EXCEPT ![u] = q]
        /\ ev' = NoEvent
        /\ UNCHANGED <<queues, user_data, fs, tasks>>

\* ------------------------------------------------------------ the upload
\* handle_files, lines 258-288, for operation "merge" / "merge_add": the file
\* is downloaded to TEMP_FOLDER/<file_name>; the handler is then suspended in
\* download_msg.delete().
handle_files(u, m) ==
    /\ HasFreeSlot
    /\ tasks' = Spawn(tasks, UploadTask(u, NoQueue, "downloaded", m))
    /\ fs' = [fs EXCEPT !.videos = @ \cup {m.file_name}]
    /\ ev' = NoEvent
    /\ UNCHANGED <<MERGE_QUEUE_DB, queues, user_data>>

\* process_merge_video, lines 27-57 and up to the next await: the existence
\* check, the probe, add_video.  After a refusal the handler only replies
\* (lines 31-36, 92-97).
process_merge_video(dur) ==
    \E tk \in Suspended :
        LET u == tk.user
            q == get_or_create_queue(u)
            metadata == VideoMetadata(tk.item, dur)
            after == add_video(queues[q], metadata)
            found == tk.item.file_name \in fs.videos
            added == found /\ after # queues[q]
        IN  /\ tk.kind = "upload"
            /\ tk.pc = "downloaded"
            /\ MERGE_QUEUE_DB' = [MERGE_QUEUE_DB EXCEPT ![u] = q]
            /\ queues' = [queues EXCEPT ![q] = IF added THEN after ELSE @]
            /\ tasks' = IF added THEN Resume(tasks, tk, UploadTask(u, q, "summary", NoItem))
                        ELSE Finish(tasks, tk)
            /\ ev' = Offered(u, q, tk.item,
                             IF ~found THEN "notfound"
                             ELSE IF added THEN "accepted" ELSE "rejected",
                             IF added THEN after ELSE queues[q])
            /\ UNCHANGED <<user_data, fs>>

\* process_merge_video, lines 67-102, after the awaits: when the summary
\* message was sent its id is stored in the queue object the handler holds.
upload_return(sent) ==
    \E tk \in Suspended :
        LET ts == Finish(tasks, tk)
        IN  /\ tk.kind = "upload"
            /\ tk.pc = "summary"
            /\ tasks' = ts
            /\ queues' = Sweep([queues EXCEPT ![tk.q].queue_message_id =
                                    IF sent THEN SummaryMessage ELSE @], ts)
            /\ ev' = NoEvent
            /\ UNCHANGED <<MERGE_QUEUE_DB, user_data, fs>>

\* ------------------------------------------------------ execute_smart_merge
Precondition_WarningsBlock(queue, mode) ==
    IF mode = "none" THEN "nomode"
    ELSE IF Len(queue.videos) < 2 THEN "few"
    ELSE IF \E i, j \in 1..Len(queue.videos) :
               \E a \in DOMAIN queue.videos[i] \ {"msg_id", "file_name", "file_id", "duration"} :
                   queue.videos[i][a] # queue.videos[j][a]
         THEN "incompatible"
    ELSE "pass"

\* Why execute_smart_merge, lines 148-164, turns the request down ("pass"
\* when it does not).
Precondition(queue, mode) ==
    IF mode = "none" THEN "nomode"
    ELSE IF mode = "telegram" /\ ~HasFormat(mode) THEN "noformat"
    ELSE IF Len(queue.videos) < 2 THEN "few"
    ELSE "pass"

\* handle_callback_query for "merge_use_default" / "merge_filename_continue"
\* and execute_smart_merge, lines 137-181, up to its first await: the check of
\* the flag, its setting, the preconditions.  A request turned down because a
\* merge is in progress only answers the query and returns (lines 141-144).
execute_smart_merge(u) ==
    LET q == get_or_create_queue(u)
        mode == user_data[u].upload_mode
        held == AcquireGuard(queues[q])
        pre == Precondition(held, mode)
    IN  /\ MERGE_QUEUE_DB' = [MERGE_QUEUE_DB EXCEPT ![u] = q]
        /\ IF queues[q].is_merging
           THEN /\ ev' = Begun(u, q, "busy", queues[q])
                /\ UNCHANGED <<queues, tasks>>
           ELSE /\ HasFreeSlot
                /\ IF pre # "pass"
                   THEN /\ tasks' = Spawn(tasks, ExecTask(u, q, "rej", "none", pre, "none", FALSE))
                        /\ queues' = [queues EXCEPT ![q] = ResetGuard(held)]
                        /\ ev' = Begun(u, q, pre, ResetGuard(held))
                   ELSE /\ tasks' = Spawn(tasks, ExecTask(u, q, "prep", mode, "none", "none", FALSE))
                        /\ queues' = [queues EXCEPT ![q] = held]
                        /\ ev' = Begun(u, q, "accepted", held)
        /\ UNCHANGED <<user_data, fs>>

\* Lines 151-153, 157-159, 163-164: the return after query.answer().
rejected_return ==
    \E tk \in Suspended :
        LET ts == Finish(tasks, tk)
        IN  /\ tk.kind = "exec"
            /\ tk.pc = "rej"
            /\ tasks' = ts
            /\ queues' = Sweep(queues, ts)
            /\ ev' = Returned(tk.user, tk.q, tk.why, queues[tk.q], {}, {})
            /\ UNCHANGED <<MERGE_QUEUE_DB, user_data, fs>>

\* os.remove of the working files a return path names.
Cleanup(files, concat, out, thumb) ==
    [files EXCEPT !.concat = IF concat THEN FALSE ELSE @,
                  !.out = IF out THEN "absent" ELSE @,
                  !.thumb = IF thumb THEN FALSE ELSE @]

\* The return of an accepted call that does not clear the queue: lines
\* 221-222, 283-293, 306-315, then the finally clause.  files: the temp
\* folder with what the call wrote (made) in this stretch; concat, out: the
\* working files this path removes.
ReturnKeeping(tk, exit, files, made, concat, out) ==
    LET q == tk.q
        left == FinallyRelease(queues[q])
        ts == Finish(tasks, tk)
    IN  /\ tasks' = ts
        /\ queues' = Sweep([queues EXCEPT ![q] = left], ts)
        /\ fs' = Cleanup(files, concat, out, FALSE)
        /\ ev' = Returned(tk.user, q, exit, left, PathsOf(queues[q].videos), made)
        /\ UNCHANGED <<MERGE_QUEUE_DB, user_data>>

PathsTried_FallsBack(path, exit) ==
    IF path = "unknown" THEN <<>>
    ELSE IF path = "mtproto" /\ exit = "DeliveryFailed" THEN <<"mtproto", "botapi">>
    ELSE <<path>>

\* The transports one dispatch has called when it ends with exit, in call
\* order.  Lines 332-351 are one if/elif chain, so one branch runs;
\* _upload_to_telegram returns at line 409 right after _upload_via_pyrogram,
\* whatever became of it, and re-raises what the Bot API raised (453-455);
\* the else branch of line 350 raises without calling a transport.
PathsTried(path, exit) == IF path = "unknown" THEN <<>> ELSE <<path>>

\* The transports a returning call has tried: none before it reaches line
\* 332.
Tried(tk, exit) == IF tk.pc = "upload" THEN PathsTried(tk.path, exit) ELSE <<>>

\* The exits that go through the handler of line 370: what the try body
\* raised (telegram.error.TelegramError, OSError,
\* subprocess.TimeoutExpired, ValueError).
RaisedExits == {"StatusFailed", "EmptyPlanNoticeFailed", "EngineTimeout", "DeliveryRaised"}

Caught_NotTimeout(exit) == exit # "EngineTimeout"

\* Line 370, except Exception: every class the try body raises derives from
\* Exception.  The handler guards its own message (372-381) and its
\* os.remove calls (386-394), and clear_all deletes through
\* FileManager.delete_file, which catches (file_manager.py 59-69).
Caught(exit) == TRUE

\* How a call that leaves by exit ends for its caller: it returns, or the
\* exception goes on past the finally clause.
Ending(exit) == IF exit \in RaisedExits /\ ~Caught(exit) THEN "raise" ELSE "ret"

\* The return of an accepted call that clears the queue: lines 353-368 after
\* the transport, or the handler of lines 370-394 after its error message,
\* then the finally clause.  concat, out, thumb: the working files whose
\* variables are set, which this path removes.
ReturnClearing(tk, exit, files, made, concat, out, thumb) ==
    LET q == tk.q
        c == clear_all(queues[q], files.videos)
        left == FinallyRelease(c.queue)
        ts == Finish(tasks, tk)
    IN  /\ tasks' = ts
        /\ queues' = Sweep([queues EXCEPT ![q] = left], ts)
        /\ fs' = Cleanup([files EXCEPT !.videos = c.files], concat, out, thumb)
        /\ ev' = [Returned(tk.user, q, exit, left, PathsOf(queues[q].videos), made)
                    EXCEPT !.t = Ending(exit), !.arg = Tried(tk, exit)]
        /\ UNCHANGED <<MERGE_QUEUE_DB, user_data>>

\* Lines 180-194: editing the status message failed and so did sending a new
\* one; the exception reaches the handler of line 370.
status_message_fails ==
    \E tk \in Suspended :
        /\ tk.kind = "exec"
        /\ tk.pc = "prep"
        /\ ReturnClearing(tk, "StatusFailed", fs, {}, FALSE, FALSE, FALSE)

Manifest_KeepsMissing(videos, files) == [i \in 1..Len(videos) |-> file_path(videos[i])]

\* The manifest of lines 199-208: one line per queued item whose file exists.
Manifest(videos, files) ==
    LET Kept == SelectSeq(videos, LAMBDA v : file_path(v) \in files)
    IN  [i \in 1..Len(Kept) |-> file_path(Kept[i])]

PlanIsEmpty_Never(lines) == FALSE

\* Line 214: len(concat_lines) == 0.
PlanIsEmpty(lines) == Len(lines) = 0

\* Line 200: concat_list.txt is opened for writing.
WithManifest(files) == [files EXCEPT !.concat = TRUE]

\* Lines 196-236, after asyncio.sleep: concat_list.txt is written and read
\* back; with a line in it the call goes on to ffmpeg.
build_manifest ==
    \E tk \in Suspended :
        /\ tk.kind = "exec"
        /\ tk.pc = "prep"
        /\ ~PlanIsEmpty(Manifest(queues[tk.q].videos, fs.videos))
        /\ fs' = WithManifest(fs)
        /\ tasks' = Resume(tasks, tk, [tk EXCEPT !.pc = "engine"])
        /\ ev' = [Built(tk.user, tk.q)
                      EXCEPT !.arg = Manifest(queues[tk.q].videos, fs.videos)]
        /\ UNCHANGED <<MERGE_QUEUE_DB, queues, user_data>>

\* Lines 196-222 and 396-397: the manifest is empty; after the notice the
\* flag is reset and the call returns.
empty_plan_return ==
    \E tk \in Suspended :
        /\ tk.kind = "exec"
        /\ tk.pc = "prep"
        /\ PlanIsEmpty(Manifest(queues[tk.q].videos, fs.videos))
        /\ ReturnKeeping(tk, "EmptyPlan", WithManifest(fs), {"concat"}, FALSE, FALSE)

\* Line 216: the notice of the empty manifest raises (it is not guarded);
\* the handler of line 370 runs.
empty_plan_notice_fails ==
    \E tk \in Suspended :
        /\ tk.kind = "exec"
        /\ tk.pc = "prep"
        /\ PlanIsEmpty(Manifest(queues[tk.q].videos, fs.videos))
        /\ ReturnClearing(tk, "EmptyPlanNoticeFailed", WithManifest(fs), {"concat"},
                          TRUE, FALSE, FALSE)

\* What ffmpeg leaves at the output path ("absent": it wrote nothing).
WithOutput(files, written) == [files EXCEPT !.out = IF written = "absent" THEN @ ELSE written]

\* The working files a call has written once ffmpeg has run.
MadeBy(written) == IF written = "absent" THEN {"concat"} ELSE {"concat", "out"}

ValidOutput_AnyFile(files) == files.out # "absent"

\* Line 295: the output exists and has at least 1024 bytes.
ValidOutput(files) == files.out \in {"ok", "big"}

\* _generate_video_thumbnail, lines 105-132 (it has no await): the
\* thumbnail is written or the call returns None.
WithThumbnail(files, made) == [files EXCEPT !.thumb = @ \/ made]

\* Lines 332-351 and _upload_to_telegram 406-409: the transport of a merge.
Transport(mode, size) ==
    IF mode = "rclone" THEN "rclone"
    ELSE IF mode = "telegram"
         THEN IF size = "big" /\ PYROGRAM_AVAILABLE THEN "mtproto" ELSE "botapi"
    ELSE "unknown"

ThumbnailResult_FailureRaises(made) == IF made THEN "path" ELSE "raise"

\* _generate_video_thumbnail, lines 105-132: thumb_path when ffmpeg exited
\* with 0 and the file exists; None when it exited non-zero, timed out
\* (timeout=30) or anything raised (except Exception, 130-132).
ThumbnailResult(made) == IF made THEN "path" ELSE "None"

\* Lines 267-330: ffmpeg exits with code 0 and the output is valid; its size
\* is read, the thumbnail generated and the transport awaited.
engine_exits_zero(written, made) ==
    \E tk \in Suspended :
        LET files == WithOutput(fs, written)
        IN  /\ tk.kind = "exec"
            /\ tk.pc = "engine"
            /\ ValidOutput(files)
            /\ IF ThumbnailResult(made) = "raise"
               THEN ReturnClearing(tk, "PreviewRaised", files, MadeBy(written),
                                   TRUE, TRUE, FALSE)
               ELSE /\ fs' = WithThumbnail(files, made)
                    /\ tasks' = Resume(tasks, tk, [tk EXCEPT !.pc = "upload",
                                                     !.path = Transport(tk.mode, files.out),
                                                     !.thumb = made])
                    /\ ev' = Validated(tk.user, tk.q, 0)
                    /\ UNCHANGED <<MERGE_QUEUE_DB, queues, user_data>>

\* Lines 267-315: ffmpeg exits with code 0 and the output is missing or too
\* small.
corrupt_output_return(written) ==
    \E tk \in Suspended :
        /\ tk.kind = "exec"
        /\ tk.pc = "engine"
        /\ ~ValidOutput(WithOutput(fs, written))
        /\ ReturnKeeping(tk, "CorruptOutput", WithOutput(fs, written), MadeBy(written), TRUE, TRUE)

\* Lines 267-293: ffmpeg exits with a non-zero code, with or without a
\* partial output file.
engine_failure_return(written) ==
    \E tk \in Suspended :
        /\ tk.kind = "exec"
        /\ tk.pc = "engine"
        /\ ReturnKeeping(tk, "EngineNonZero", WithOutput(fs, written), MadeBy(written), TRUE, TRUE)

\* Lines 259-267 and 370-397: subprocess.run raises TimeoutExpired after
\* 3600 s.
engine_times_out(written) ==
    \E tk \in Suspended :
        /\ tk.kind = "exec"
        /\ tk.pc = "engine"
        /\ ReturnClearing(tk, "EngineTimeout", WithOutput(fs, written), MadeBy(written),
                          TRUE, TRUE, FALSE)

\* How a transport ends: "ok", a failure it reports itself ("swallowed":
\* _upload_to_rclone 479-503, _upload_via_pyrogram 602-619), or a failure it
\* re-raises ("raised": _upload_to_telegram 453-455).
DeliveryOutcomes(path) ==
    IF path = "botapi" THEN {"ok", "raised"}
    ELSE IF path \in {"rclone", "mtproto"} THEN {"ok", "swallowed"}
    ELSE {"swallowed", "raised"}

\* The working files a call that reached the transport has written.
MadeAtDispatch(tk) == {"concat", "out"} \cup (IF tk.thumb THEN {"thumb"} ELSE {})

\* Lines 332-368 and 396-397: the transport returned.
dispatch_return(outcome) ==
    \E tk \in Suspended :
        /\ tk.kind = "exec"
        /\ tk.pc = "upload"
        /\ outcome \in DeliveryOutcomes(tk.path) \ {"raised"}
        /\ ReturnClearing(tk, IF outcome = "ok" THEN "Delivered" ELSE "DeliveryFailed",
                          fs, MadeAtDispatch(tk), TRUE, TRUE, tk.thumb)

\* Lines 336-348 and 370-397: the transport raised.
dispatch_raises ==
    \E tk \in Suspended :
        /\ tk.kind = "exec"
        /\ tk.pc = "upload"
        /\ "raised" \in DeliveryOutcomes(tk.path)
        /\ ReturnClearing(tk, "DeliveryRaised", fs, MadeAtDispatch(tk), TRUE, TRUE, tk.thumb)

\* ------------------------------------------------------------------ Next
Next ==
    \/ \E u \in Users : start_command(u)
    \/ \E u \in Users, mode \in UploadModes \ {"none"} : select_upload_mode(u, mode)
    \/ \E u \in Users : merge_clear(u)
    \/ \E u \in Users : merge_confirm(u)
    \/ \E u \in Users, m \in Messages : handle_files(u, m)
    \/ \E dur \in Durations : process_merge_video(dur)
    \/ \E sent \in BOOLEAN : upload_return(sent)
    \/ \E u \in Users : execute_smart_merge(u)
    \/ rejected_return
    \/ status_message_fails
    \/ build_manifest
    \/ empty_plan_return
    \/ empty_plan_notice_fails
    \/ \E written \in Sizes, made \in BOOLEAN : engine_exits_zero(written, made)
    \/ \E written \in Sizes : corrupt_output_return(written)
    \/ \E written \in {"absent", "small"} : engine_failure_return(written)
    \/ \E written \in {"absent", "small"} : engine_times_out(written)
    \/ \E outcome \in {"ok", "swallowed"} : dispatch_return(outcome)
    \/ dispatch_raises

Spec == Init /\ [][Next]_vars

\* --------------------------------------------- the MergeQueue object alone
\* The methods of one MergeQueue object under an arbitrary caller: the caller
\* writes a file and offers it, removes, moves, clears, and sets the two
\* attributes the handlers set.

\* The highest message id a caller offers.
MaxId == 21

\* The message with id n; its file is named after it.
Upload(n) == [file_name |-> "v" \o ToStr(n) \o ".mp4", msg_id |-> n]

\* A file ffprobe cannot read: its duration is probed as 0.
Broken == [file_name |-> "broken.mp4", msg_id |-> 0]

QueuedIds(queue) == {queue.videos[i].msg_id : i \in 1..Len(queue.videos)}

\* Message ids matter only up to equality: a message not in the queue takes
\* the lowest id above those queued.
FreshId(queue) ==
    IF queue.videos = <<>> THEN 1
    ELSE 1 + CHOOSE n \in QueuedIds(queue) : \A k \in QueuedIds(queue) : k <= n

\* What a caller offers: a message not queued, with a probed duration; the
\* message queued last again, probed again (the probe answers 0 when it
\* fails); the broken file.
Offers(queue) ==
    {<<Upload(FreshId(queue)), 5>> : x \in {y \in {1} : FreshId(queue) <= MaxId}}
        \cup {<<Upload(FreshId(queue) - 1), dur>> :
                  dur \in {d \in Durations : queue.videos # <<>>}}
        \cup {<<Broken, 0>>}

\* The positions a caller names (counted from 0): one below the list, its
\* first two, its last, one past its end.
RemoveIndices(queue) == {-1, Len(queue.videos) - 1, Len(queue.videos)}
MoveIndices(queue) == {-1, 0, 1, Len(queue.videos)}

\* A method of queue object q returned: its name, its arguments, what it
\* returned (for add_video the warning logged), the object after the call.
Called(u, q, name, arg, exit, queue, item) ==
    [NoEvent EXCEPT !.t = name, !.user = u, !.q = q, !.arg = arg, !.exit = exit,
                    !.queue = queue, !.item = item]

call_add_video(u) ==
    LET q == get_or_create_queue(u) IN
    \E offer \in Offers(queues[q]) :
        LET metadata == VideoMetadata(offer[1], offer[2])
            after == add_video(queues[q], metadata)
        IN  /\ MERGE_QUEUE_DB' = [MERGE_QUEUE_DB EXCEPT ![u] = q]
            /\ fs' = [fs EXCEPT !.videos = @ \cup {file_path(metadata)}]
            /\ queues' = [queues EXCEPT ![q] = after]
            /\ ev' = Called(u, q, "add_video", <<offer[2]>>,
                            add_video_warning(queues[q], metadata), after, offer[1])
            /\ UNCHANGED <<user_data, tasks>>

call_remove_video(u) ==
    LET q == get_or_create_queue(u) IN
    \E index \in RemoveIndices(queues[q]) :
        LET r == remove_video(queues[q], fs.videos, index)
        IN  /\ MERGE_QUEUE_DB' = [MERGE_QUEUE_DB EXCEPT ![u] = q]
            /\ queues' = [queues EXCEPT ![q] = r.queue]
            /\ fs' = [fs EXCEPT !.videos = r.files]
            /\ ev' = Called(u, q, "remove_video", <<index>>, r.result, r.queue, NoItem)
            /\ UNCHANGED <<user_data, tasks>>

call_move_video(u) ==
    LET q == get_or_create_queue(u) IN
    \E from_idx, to_idx \in MoveIndices(queues[q]) :
        LET r == move_video(queues[q], from_idx, to_idx)
        IN  /\ MERGE_QUEUE_DB' = [MERGE_QUEUE_DB EXCEPT ![u] = q]
            /\ queues' = [queues EXCEPT ![q] = r.queue]
            /\ ev' = Called(u, q, "move_video", <<from_idx, to_idx>>, r.result,
                            r.queue, NoItem)
            /\ UNCHANGED <<user_data, fs, tasks>>

call_clear_all(u) ==
    LET q == get_or_create_queue(u)
        r == clear_all(queues[q], fs.videos)
    IN  /\ MERGE_QUEUE_DB' = [MERGE_QUEUE_DB EXCEPT ![u] = q]
        /\ queues' = [queues EXCEPT ![q] = r.queue]
        /\ fs' = [fs EXCEPT !.videos = r.files]
        /\ ev' = [Called(u, q, "clear_all", <<>>, "None", r.queue, NoItem)
                      EXCEPT !.paths = PathsOf(queues[q].videos)]
        /\ UNCHANGED <<user_data, tasks>>

\* queue.queue_message_id = msg.message_id (video_merge_processor.py 90).
set_queue_message_id(u) ==
    LET q == get_or_create_queue(u)
    IN  /\ MERGE_QUEUE_DB' = [MERGE_QUEUE_DB EXCEPT ![u] = q]
        /\ queues' = [queues EXCEPT ![q].queue_message_id = SummaryMessage]
        /\ ev' = NoEvent
        /\ UNCHANGED <<user_data, fs, tasks>>

\* queue.is_merging = True (video_merge_processor.py 146).
set_is_merging(u) ==
    LET q == get_or_create_queue(u)
    IN  /\ MERGE_QUEUE_DB' = [MERGE_QUEUE_DB EXCEPT ![u] = q]
        /\ queues' = [queues EXCEPT ![q] = AcquireGuard(@)]
        /\ ev' = NoEvent
        /\ UNCHANGED <<user_data, fs, tasks>>

NextQueue ==
    \/ \E u \in Users : call_add_video(u)
    \/ \E u \in Users : call_remove_video(u)
    \/ \E u \in Users : call_move_video(u)
    \/ \E u \in Users : call_clear_all(u)
    \/ \E u \in Users : set_queue_message_id(u)
    \/ \E u \in Users : set_is_merging(u)

SpecQueue == Init /\ [][NextQueue]_vars

\* ------------------------------------------- the compatibility warnings
\* Queues whose items carry what VideoMetadata.__init__ probes besides the
\* duration, the pages that list the warnings, and the start of a merge.

\* The longest queue drawn.
MaxProbed == 2

Codecs == {"h264", "hevc"}
Resolutions == {<<1920, 1080>>, <<1280, 720>>}
FpsValues == {30, 25}

\* VideoMetadata.__init__ with the probes of lines 32-35.
ProbedMetadata(m, dur, codec, resolution, fps, has_audio) ==
    [ msg_id     |-> m.msg_id,
      file_name  |-> m.file_name,
      file_id    |-> m.file_name \o ToStr(m.msg_id),
      duration   |-> dur,
      codec      |-> codec,
      resolution |-> resolution,
      fps        |-> fps,
      has_audio  |-> has_audio ]

\* The items message n can become.
ProbedItems(n) ==
    {ProbedMetadata(Upload(n), 5, codec, resolution, fps, has_audio) :
        codec \in Codecs, resolution \in Resolutions, fps \in FpsValues,
        has_audio \in BOOLEAN}

\* Messages 1..n queued in that order.
ProbedQueues ==
    UNION {{videos \in [1..n -> UNION {ProbedItems(k) : k \in 1..n}] :
                \A i \in 1..n : videos[i] \in ProbedItems(i)} : n \in 0..MaxProbed}

\* The values the items take for one attribute.
ValuesOf(videos, attribute) == {videos[i][attribute] : i \in 1..Len(videos)}

get_validation_warnings_NoAudio(queue) ==
    IF Len(queue.videos) < 2 THEN <<>>
    ELSE (IF Cardinality(ValuesOf(queue.videos, "codec")) > 1 THEN <<"codec">> ELSE <<>>)
      \o (IF Cardinality(ValuesOf(queue.videos, "resolution")) > 1
          THEN <<"resolution">> ELSE <<>>)
      \o (IF Cardinality(ValuesOf(queue.videos, "fps")) > 1 THEN <<"fps">> ELSE <<>>)

\* MergeQueue.get_validation_warnings: the list it returns, each warning
\* named after the attribute it is about.
get_validation_warnings(queue) ==
    IF Len(queue.videos) < 2 THEN <<>>
    ELSE (IF Cardinality(ValuesOf(queue.videos, "codec")) > 1 THEN <<"codec">> ELSE <<>>)
      \o (IF Cardinality(ValuesOf(queue.videos, "resolution")) > 1
          THEN <<"resolution">> ELSE <<>>)
      \o (IF Cardinality(ValuesOf(queue.videos, "fps")) > 1 THEN <<"fps">> ELSE <<>>)
      \o (IF Cardinality(ValuesOf(queue.videos, "has_audio")) > 1
          THEN <<"has_audio">> ELSE <<>>)

\* get_validation_warnings returned on queue object q.
Warned(u, q, warnings, queue) ==
    [NoEvent EXCEPT !.t = "get_validation_warnings", !.user = u, !.q = q,
                    !.arg = warnings, !.queue = queue]

InitWarnings ==
    /\ MERGE_QUEUE_DB = [u \in Users |-> get_or_create_queue(u)]
    /\ \E videos \in ProbedQueues :
          /\ queues = [i \in QueueIds |->
                          IF i \in Users THEN [MergeQueue_init EXCEPT !.videos = videos]
                          ELSE MergeQueue_init]
          /\ fs = [videos |-> PathsOf(videos), concat |-> FALSE, out |-> "absent",
                   thumb |-> FALSE]
    /\ user_data \in [Users -> [upload_mode : UploadModes]]
    /\ tasks = EmptyBag
    /\ ev = NoEvent

\* show_merge_queue (lines 314-346) and show_pre_merge_validation (385-420)
\* up to their await: the warnings are computed and put into the text.
show_pre_merge_validation(u) ==
    LET q == get_or_create_queue(u)
    IN  /\ MERGE_QUEUE_DB' = [MERGE_QUEUE_DB EXCEPT ![u] = q]
        /\ ev' = Warned(u, q, get_validation_warnings(queues[q]), queues[q])
        /\ UNCHANGED <<queues, user_data, fs, tasks>>

NextWarnings ==
    \/ \E u \in Users : show_pre_merge_validation(u)
    \/ \E u \in Users : execute_smart_merge(u)
    \/ rejected_return
    \/ build_manifest

SpecWarnings == InitWarnings /\ [][NextWarnings]_vars

\* ------------------------------------------------- the manifest alone
\* One accepted call waiting before the manifest, on a queue some of whose
\* files are gone: TEMP_FOLDER/<file_name> is one folder for every user
\* (file_handler.py 272), so another user's clear deletes a file of the same
\* name.

\* The longest queue drawn.
MaxListed == 3

\* The items drawn: two named after their message, two sharing a name.
ListedItems ==
    {VideoMetadata(m, 5) :
        m \in {Upload(1), Upload(2), [file_name |-> "a.mp4", msg_id |-> 12],
               [file_name |-> "a.mp4", msg_id |-> 3]}}

\* The queues of distinct items.
ListedQueues ==
    UNION {{videos \in [1..n -> ListedItems] :
                \A i, j \in 1..n : videos[i] = videos[j] => i = j} : n \in 0..MaxListed}

InitManifest ==
    /\ MERGE_QUEUE_DB = [u \in Users |-> get_or_create_queue(u)]
    /\ \E videos \in ListedQueues :
          /\ queues = [i \in QueueIds |->
                          IF i \in Users
                          THEN AcquireGuard([MergeQueue_init EXCEPT !.videos = videos])
                          ELSE MergeQueue_init]
          /\ \E files \in SUBSET PathsOf(videos) :
                fs = [videos |-> files, concat |-> FALSE, out |-> "absent",
                      thumb |-> FALSE]
    /\ \E mode \in UploadModes \ {"none"} :
          /\ user_data = [u \in Users |-> [upload_mode |-> mode]]
          /\ tasks = SetToBag({ExecTask(u, get_or_create_queue(u), "prep", mode,
                                        "none", "none", FALSE) : u \in Users})
    /\ ev = NoEvent

NextManifest ==
    \/ status_message_fails
    \/ build_manifest
    \/ empty_plan_return
    \/ empty_plan_notice_fails

SpecManifest == InitManifest /\ [][NextManifest]_vars

\* ------------------------------------------------ the choice of transport
\* Lines 316 and 330-351 and _upload_to_telegram 406 on an output of a known
\* number of bytes, in an installation with or without the pyrogram package.

MiB == 1048576
BotApiLimitMb == 50

\* How far around the limit the sizes are drawn.
MaxDelta == 8

\* The sizes of a valid output: the floor of line 295, sizes around the
\* limit, and some well below and above it.
ByteSizes ==
    {1024, MiB, 60 * MiB, 1024 * MiB}
        \cup {BotApiLimitMb * MiB + d : d \in -MaxDelta..MaxDelta}

LargeFile_Inclusive(size) == size >= BotApiLimitMb * MiB

\* file_size_mb > 50 with file_size_mb = os.path.getsize(output_file) /
\* (1024 * 1024): the division by a power of two is exact in floating point,
\* so the test is one on the number of bytes.
LargeFile(size) == size > BotApiLimitMb * MiB

\* The transport execute_smart_merge ends up in, from the "engine" key of
\* upload_mode, the size of the output and whether pyrogram was imported.
select_transport(engine, size, available) ==
    IF engine = "telegram"
    THEN IF LargeFile(size) /\ available THEN "mtproto" ELSE "botapi"
    ELSE IF engine = "rclone" THEN "rclone"
    ELSE IF engine = "pyrogram" /\ available THEN "pyrogram_client"
    ELSE "unknown"

\* The transport chosen for user u's output.
Dispatched(u, path) == [NoEvent EXCEPT !.t = "dispatched", !.user = u, !.exit = path]

InitDispatch ==
    /\ MERGE_QUEUE_DB = [u \in Users |-> NoQueue]
    /\ queues = [i \in QueueIds |-> MergeQueue_init]
    /\ user_data \in [Users -> [upload_mode : UploadModes \ {"none"}]]
    /\ \E size \in ByteSizes, available \in BOOLEAN :
          fs = [videos |-> {}, concat |-> TRUE, out |-> size, thumb |-> FALSE,
                pyrogram |-> available]
    /\ tasks = EmptyBag
    /\ ev = NoEvent

dispatch(u) ==
    /\ ev' = Dispatched(u, select_transport(user_data[u].upload_mode, fs.out, fs.pyrogram))
    /\ UNCHANGED <<MERGE_QUEUE_DB, queues, user_data, fs, tasks>>

NextDispatch == \E u \in Users : dispatch(u)

SpecDispatch == InitDispatch /\ [][NextDispatch]_vars

\* --------------------------------------------- the rclone configuration
\* ./userdata/<user_id>/rclone.conf: how it is uploaded (handle_files,
\* file_handler.py 132-209), how the rclone mode is selected
\* (callback_handler.py 260-300) and what rclone_driver does with it.  A
\* content is the sequence of its characters.

\* The contents a user sends: one with a section, two with both brackets and
\* no section, one without brackets.
ConfContents ==
    { <<"[", "g", "]">>, <<"[", "]">>, <<"]", "g", "[">>, <<"g">> }

NoConf == [exists |-> FALSE, content |-> <<>>]
ConfFile(content) == [exists |-> TRUE, content |-> content]

Chars(content) == {content[i] : i \in 1..Len(content)}

\* file_handler.py 170: not ('[' not in content or ']' not in content).
HasBrackets(content) == "[" \in Chars(content) /\ "]" \in Chars(content)

\* rclone_upload.py 177: re.search(r'\[([^\]]+)\]', content) finds a match: an
\* opening bracket, one or more characters other than the closing bracket,
\* a closing bracket.
HasRemote(content) ==
    \E i, j \in 1..Len(content) :
        /\ content[i] = "[" /\ content[j] = "]" /\ j >= i + 2
        /\ \A k \in (i + 1)..(j - 1) : content[k] # "]"

\* A handler of handle_files in the configuration branch, suspended at pc
\* with the content of the document it was sent.
ConfTask(u, pc, content) ==
    [ExecTask(u, NoQueue, pc, "none", "none", "none", FALSE)
         EXCEPT !.kind = "conf", !.path = content]

\* handle_files finished with a configuration: what it did with it.
ConfHandled(u, exit, content) ==
    [NoEvent EXCEPT !.t = "conf", !.user = u, !.exit = exit, !.arg = content]

\* rclone_driver returned, or went on to rclone_upload ("Transfer").
RcloneDriven(u, exit) == [NoEvent EXCEPT !.t = "rclone_driver", !.user = u, !.exit = exit]

InitRclone ==
    /\ MERGE_QUEUE_DB = [u \in Users |-> NoQueue]
    /\ queues = [i \in QueueIds |-> MergeQueue_init]
    /\ user_data = [u \in Users |->
                       [upload_mode |-> "telegram", awaiting_rclone_config |-> FALSE]]
    /\ \E installed \in BOOLEAN, out \in {"absent", "ok"} :
          fs = [videos |-> {}, concat |-> TRUE, out |-> out, thumb |-> FALSE,
                conf |-> NoConf, rclone |-> installed]
    /\ tasks = EmptyBag
    /\ ev = NoEvent

\* handle_callback_query, "upload_telegram" (callback_handler.py 260-270).
upload_telegram(u) ==
    /\ user_data' = [user_data EXCEPT ![u].upload_mode = "telegram"]
    /\ ev' = NoEvent
    /\ UNCHANGED <<MERGE_QUEUE_DB, queues, fs, tasks>>

\* handle_callback_query, "upload_rclone" (callback_handler.py 272-300): with
\* a stored configuration the mode is set, without one the user is asked for
\* it.
upload_rclone(u) ==
    /\ user_data' = IF fs.conf.exists
                    THEN [user_data EXCEPT ![u].upload_mode = "rclone"]
                    ELSE [user_data EXCEPT ![u].awaiting_rclone_config = TRUE]
    /\ ev' = NoEvent
    /\ UNCHANGED <<MERGE_QUEUE_DB, queues, fs, tasks>>

\* handle_files, lines 132-158: a .conf document arrives while a
\* configuration is awaited; the handler is suspended in the download.
conf_upload(u, content) ==
    /\ user_data[u].awaiting_rclone_config
    /\ HasFreeSlot
    /\ tasks' = Spawn(tasks, ConfTask(u, "download", content))
    /\ ev' = NoEvent
    /\ UNCHANGED <<MERGE_QUEUE_DB, queues, user_data, fs>>

\* handle_files, lines 158-164: the download failed.
conf_download_fails ==
    \E tk \in Suspended :
        /\ tk.kind = "conf"
        /\ tk.pc = "download"
        /\ tasks' = Finish(tasks, tk)
        /\ ev' = ConfHandled(tk.user, "nodownload", tk.path)
        /\ UNCHANGED <<MERGE_QUEUE_DB, queues, user_data, fs>>

\* handle_files, lines 158-207: the download wrote rclone.conf; the content
\* is read back and tested; a content that passes switches the mode, one
\* that does not is answered first (line 202) and removed afterwards.
conf_downloaded ==
    \E tk \in Suspended :
        /\ tk.kind = "conf"
        /\ tk.pc = "download"
        /\ fs' = [fs EXCEPT !.conf = ConfFile(tk.path)]
        /\ IF HasBrackets(tk.path)
           THEN /\ user_data' = [user_data EXCEPT ![tk.user] =
                                    [upload_mode |-> "rclone",
                                     awaiting_rclone_config |-> FALSE]]
                /\ tasks' = Finish(tasks, tk)
                /\ ev' = ConfHandled(tk.user, "accepted", tk.path)
           ELSE /\ tasks' = Resume(tasks, tk, [tk EXCEPT !.pc = "reject"])
                /\ ev' = NoEvent
                /\ UNCHANGED user_data
        /\ UNCHANGED <<MERGE_QUEUE_DB, queues>>

\* handle_files, lines 202-209: os.remove(conf_path) after the answer.
conf_rejected ==
    \E tk \in Suspended :
        /\ tk.kind = "conf"
        /\ tk.pc = "reject"
        /\ fs' = [fs EXCEPT !.conf = NoConf]
        /\ tasks' = Finish(tasks, tk)
        /\ ev' = ConfHandled(tk.user, "rejected", tk.path)
        /\ UNCHANGED <<MERGE_QUEUE_DB, queues, user_data>>

rclone_driver_outcome_NoExistsCheck(files) ==
    IF ~files.rclone THEN "NotInstalled"
    ELSE IF ~files.conf.exists \/ ~HasRemote(files.conf.content) THEN "ConfigInvalid"
    ELSE IF files.out = "absent" THEN "FileNotFound"
    ELSE "Transfer"

\* rclone_driver, lines 143-220, called by _upload_to_rclone for a merge
\* whose engine is rclone: the checks it makes before rclone_upload.
rclone_driver_outcome(files) ==
    IF ~files.rclone THEN "NotInstalled"
    ELSE IF ~files.conf.exists THEN "ConfigMissing"
    ELSE IF ~HasRemote(files.conf.content) THEN "ConfigInvalid"
    ELSE IF files.out = "absent" THEN "FileNotFound"
    ELSE "Transfer"

rclone_driver(u) ==
    /\ user_data[u].upload_mode = "rclone"
    /\ ev' = RcloneDriven(u, rclone_driver_outcome(fs))
    /\ UNCHANGED <<MERGE_QUEUE_DB, queues, user_data, fs, tasks>>

NextRclone ==
    \/ \E u \in Users : upload_telegram(u)
    \/ \E u \in Users : upload_rclone(u)
    \/ \E u \in Users, content \in ConfContents : conf_upload(u, content)
    \/ conf_download_fails
    \/ conf_downloaded
    \/ conf_rejected
    \/ \E u \in Users : rclone_driver(u)

SpecRclone == InitRclone /\ [][NextRclone]_vars

\* ------------------------------------------------- the progress tracker
\* One ProgressTracker object (progress_tracker.py) under an arbitrary
\* caller.  fs.clock is what time.time() returns, in ticks; the object lives
\* in the handler that constructed it.

\* Clock ticks in one second, and the last tick of the clock.
TicksPerSecond == 2
MaxClock == 12

\* Line 24: the seconds of the throttle window.
THROTTLE == 2

\* A handler that holds a ProgressTracker(update, context, status_msg,
\* operation) with the two times of lines 16-17.
Tracker(u, start_time, last_update) ==
    [ kind |-> "tracker", user |-> u, start_time |-> start_time,
      last_update |-> last_update ]

Throttled_HalfWindow(now, last_update) == 2 * (now - last_update) < THROTTLE * TicksPerSecond

\* Line 24: time.time() - self.last_update < 2.
Throttled(now, last_update) == now - last_update < THROTTLE * TicksPerSecond

\* The end of a call of update_progress at clock reading now: "sent" (the
\* edit of line 62 was awaited) or "skipped" (the return of line 25); last:
\* the readings at which edits were sent so far, the latest first; arg[1] is
\* self.last_update as the call found it.
Progressed(u, exit, now, found, last) ==
    [NoEvent EXCEPT !.t = "update_progress", !.user = u, !.exit = exit,
                    !.arg = <<found, now>>, !.paths = last]

\* The reading of the latest edit sent by the tracker (in ev.paths).
LastEdit(e) == IF e.t = "update_progress" THEN e.paths ELSE {}

InitTracker ==
    /\ MERGE_QUEUE_DB = [u \in Users |-> NoQueue]
    /\ queues = [i \in QueueIds |-> MergeQueue_init]
    /\ user_data = [u \in Users |-> [upload_mode |-> "telegram"]]
    /\ fs = [videos |-> {}, concat |-> FALSE, out |-> "absent", thumb |-> FALSE,
             clock |-> 0]
    /\ tasks = EmptyBag
    /\ ev = NoEvent

\* Time passes.
tick ==
    /\ fs.clock < MaxClock
    /\ fs' = [fs EXCEPT !.clock = @ + 1]
    /\ UNCHANGED <<MERGE_QUEUE_DB, queues, user_data, tasks, ev>>

\* ProgressTracker.__init__, lines 11-17; time.time() is read twice, elapsed
\* ticks apart.
ProgressTracker_init(u, elapsed) ==
    /\ tasks = EmptyBag
    /\ fs.clock + elapsed <= MaxClock
    /\ tasks' = SetToBag({Tracker(u, fs.clock, fs.clock + elapsed)})
    /\ fs' = [fs EXCEPT !.clock = @ + elapsed]
    /\ ev' = [NoEvent EXCEPT !.t = "ProgressTracker", !.user = u]
    /\ UNCHANGED <<MERGE_QUEUE_DB, queues, user_data>>

\* What a caller reports: current and total units and the speed string,
\* which is empty, a word, or a number followed by a unit.  The pairs are
\* ones for which the float arithmetic of lines 31 and 37 is exact.
Speeds ==
    { [kind |-> "empty", value |-> 0], [kind |-> "word", value |-> 0],
      [kind |-> "number", value |-> 2], [kind |-> "number", value |-> 0] }
Observations ==
    { [current |-> c[1], total |-> c[2], speed |-> sp] :
        c \in {<<5, 10>>, <<10, 10>>, <<0, 0>>, <<30, 10>>, <<-30, 10>>, <<5, -1>>},
        sp \in Speeds }

\* Line 36.
bar_length == 20

\* int(x) for x = num / den with den > 0: towards zero.
Trunc(num, den) == IF num >= 0 THEN num \div den ELSE -((-num) \div den)

\* Lines 30-33: (current / total) * 100, or 0, as a fraction.
Percentage(current, total) ==
    IF total > 0 THEN [num |-> 100 * current, den |-> total] ELSE [num |-> 0, den |-> 1]

\* Line 37: int(bar_length * percentage / 100).
Filled(percentage) == Trunc(bar_length * percentage.num, 100 * percentage.den)

\* Python's str * n: n copies, none when n is negative.
Repeat(n) == IF n > 0 THEN n ELSE 0

\* Line 38: the cells of the bar, filled and unfilled.
BarCells(filled) == Repeat(filled) + Repeat(bar_length - filled)

\* Lines 41-50: the ETA is estimated when speed is non-empty, current > 0
\* and float(speed.split()[0]) succeeds; otherwise "calculating...".
Eta(obs) ==
    IF obs.speed.kind # "empty" /\ obs.current > 0 /\ obs.speed.kind = "number"
    THEN "estimated" ELSE "calculating"

\* The text of lines 52-60 as far as the properties read it.
Rendered(obs) ==
    [ percentage |-> Percentage(obs.current, obs.total),
      filled |-> Filled(Percentage(obs.current, obs.total)),
      cells |-> BarCells(Filled(Percentage(obs.current, obs.total))),
      eta |-> Eta(obs) ]

\* update_progress, lines 19-64, up to the await of line 62 (an edit that
\* raises is logged, line 64).  The test of line 24 reads the clock, the
\* assignment of line 27 reads it again, elapsed ticks later.  An accepted
\* call renders obs and awaits the edit, which returns or fails (edit).
update_progress(elapsed, obs, edit) ==
    \E tk \in Suspended :
        /\ tk.kind = "tracker"
        /\ IF Throttled(fs.clock, tk.last_update)
           THEN /\ ev' = Progressed(tk.user, "skipped", fs.clock, tk.last_update, LastEdit(ev))
                /\ UNCHANGED <<tasks, fs>>
           ELSE /\ fs.clock + elapsed <= MaxClock
                /\ tasks' = Resume(tasks, tk, [tk EXCEPT !.last_update = fs.clock + elapsed])
                /\ fs' = [fs EXCEPT !.clock = @ + elapsed]
                /\ ev' = [Progressed(tk.user, "sent", fs.clock + elapsed, tk.last_update,
                                     {fs.clock + elapsed})
                             EXCEPT !.arg = @ \o <<obs, Rendered(obs), edit>>]
        /\ UNCHANGED <<MERGE_QUEUE_DB, queues, user_data>>

NextTracker ==
    \/ tick
    \/ \E u \in Users, elapsed \in 0..1 : ProgressTracker_init(u, elapsed)
    \/ \E elapsed \in 0..1, obs \in Observations, edit \in {"ok", "fails"} :
          update_progress(elapsed, obs, edit)

SpecTracker == InitTracker /\ [][NextTracker]_vars

\* ---------------------------------------------------------- the registry
\* MERGE_QUEUE_DB and get_or_create_queue (video_merge_manager.py 18,
\* 270-274) under two users.  Each action is one handler stretch: the
\* handler looks its queue up and calls one method on it.  Both users'
\* files are in the one TEMP_FOLDER (file_handler.py 272).

RegUsers == {1, 2}

\* The most items a user of this section queues.
MaxHeld == 2

\* The MergeQueue objects that can be alive at once, and one more.
Heap == 1..(Cardinality(RegUsers) + 1)

\* The objects the registry db refers to.
Registered(db) == {db[u] : u \in RegUsers} \ {NoQueue}

\* MergeQueue(user_id): an object that is none of the live ones.
NewObject(db) == Min(Heap \ Registered(db))

GetOrCreate_OneForAll(db, qs, u) ==
    IF db[u] # NoQueue THEN [db |-> db, queues |-> qs, q |-> db[u]]
    ELSE IF Registered(db) # {}
    THEN [db |-> [db EXCEPT ![u] = Min(Registered(db))], queues |-> qs,
          q |-> Min(Registered(db))]
    ELSE [ db |-> [db EXCEPT ![u] = NewObject(db)],
           queues |-> [qs EXCEPT ![NewObject(db)] = MergeQueue_init],
           q |-> NewObject(db) ]

\* get_or_create_queue(user_id) on registry db and objects qs: the registry
\* and the objects after the call, and the object returned.
GetOrCreate(db, qs, u) ==
    IF db[u] # NoQueue THEN [db |-> db, queues |-> qs, q |-> db[u]]
    ELSE [ db |-> [db EXCEPT ![u] = NewObject(db)],
           queues |-> [qs EXCEPT ![NewObject(db)] = MergeQueue_init],
           q |-> NewObject(db) ]

\* A handler of user u looked its queue up (the call returned object q) and
\* called method name on it; queue: the object after the method.
Reached(u, q, name, queue) ==
    [NoEvent EXCEPT !.t = name, !.user = u, !.q = q, !.queue = queue]

InitRegistry ==
    /\ MERGE_QUEUE_DB = [u \in RegUsers |-> NoQueue]
    /\ queues = [i \in Heap |-> MergeQueue_init]
    /\ user_data = [u \in RegUsers |-> [upload_mode |-> "telegram"]]
    /\ fs = [videos |-> {}, concat |-> FALSE, out |-> "absent", thumb |-> FALSE]
    /\ tasks = EmptyBag
    /\ ev = NoEvent

\* show_merge_menu, line 279: the lookup alone.
reg_lookup(u) ==
    LET g == GetOrCreate(MERGE_QUEUE_DB, queues, u)
    IN  /\ MERGE_QUEUE_DB' = g.db
        /\ queues' = g.queues
        /\ ev' = Reached(u, g.q, "get_or_create_queue", g.queues[g.q])
        /\ UNCHANGED <<user_data, fs, tasks>>

\* process_merge_video, lines 33-46: the file of message n is on disk and
\* its metadata is offered to the queue.
reg_add_video(u, n) ==
    LET g == GetOrCreate(MERGE_QUEUE_DB, queues, u)
        metadata == VideoMetadata(Upload(n), 5)
        after == add_video(g.queues[g.q], metadata)
    IN  /\ Len(g.queues[g.q].videos) < MaxHeld
        /\ MERGE_QUEUE_DB' = g.db
        /\ queues' = [g.queues EXCEPT ![g.q] = after]
        /\ fs' = [fs EXCEPT !.videos = @ \cup {file_path(metadata)}]
        /\ ev' = Reached(u, g.q, "add_video", after)
        /\ UNCHANGED <<user_data, tasks>>

reg_remove_video(u, index) ==
    LET g == GetOrCreate(MERGE_QUEUE_DB, queues, u)
        r == remove_video(g.queues[g.q], fs.videos, index)
    IN  /\ MERGE_QUEUE_DB' = g.db
        /\ queues' = [g.queues EXCEPT ![g.q] = r.queue]
        /\ fs' = [fs EXCEPT !.videos = r.files]
        /\ ev' = Reached(u, g.q, "remove_video", r.queue)
        /\ UNCHANGED <<user_data, tasks>>

reg_move_video(u, from_idx, to_idx) ==
    LET g == GetOrCreate(MERGE_QUEUE_DB, queues, u)
        r == move_video(g.queues[g.q], from_idx, to_idx)
    IN  /\ MERGE_QUEUE_DB' = g.db
        /\ queues' = [g.queues EXCEPT ![g.q] = r.queue]
        /\ ev' = Reached(u, g.q, "move_video", r.queue)
        /\ UNCHANGED <<user_data, fs, tasks>>

reg_clear_all(u) ==
    LET g == GetOrCreate(MERGE_QUEUE_DB, queues, u)
        r == clear_all(g.queues[g.q], fs.videos)
    IN  /\ MERGE_QUEUE_DB' = g.db
        /\ queues' = [g.queues EXCEPT ![g.q] = r.queue]
        /\ fs' = [fs EXCEPT !.videos = r.files]
        /\ ev' = Reached(u, g.q, "clear_all", r.queue)
        /\ UNCHANGED <<user_data, tasks>>

\* queue.is_merging = True / False (video_merge_processor.py 146, 150).
reg_set_is_merging(u, value) ==
    LET g == GetOrCreate(MERGE_QUEUE_DB, queues, u)
        after == IF value THEN AcquireGuard(g.queues[g.q]) ELSE ResetGuard(g.queues[g.q])
    IN  /\ MERGE_QUEUE_DB' = g.db
        /\ queues' = [g.queues EXCEPT ![g.q] = after]
        /\ ev' = Reached(u, g.q, "is_merging", after)
        /\ UNCHANGED <<user_data, fs, tasks>>

\* start_command, lines 20-63, on the registry: the user's queue is cleared
\* and its entry deleted when there is one; user_data is cleared and the
\* default upload mode stored.  queue: the removed object as the handler
\* leaves it; paths: the files of the items it held.
reg_start_command(u) ==
    LET q == MERGE_QUEUE_DB[u]
        r == clear_all(queues[q], fs.videos)
    IN  /\ IF q = NoQueue
           THEN /\ ev' = Reached(u, NoQueue, "start_command", MergeQueue_init)
                /\ UNCHANGED <<MERGE_QUEUE_DB, queues, fs>>
           ELSE /\ MERGE_QUEUE_DB' = [MERGE_QUEUE_DB EXCEPT ![u] = NoQueue]
                /\ queues' = [queues EXCEPT ![q] = MergeQueue_init]
                /\ fs' = [fs EXCEPT !.videos = r.files]
                /\ ev' = [Reached(u, q, "start_command", r.queue)
                             EXCEPT !.paths = PathsOf(queues[q].videos)]
        /\ user_data' = [user_data EXCEPT ![u] = [upload_mode |-> "telegram"]]
        /\ UNCHANGED tasks

NextRegistry ==
    \/ \E u \in RegUsers : reg_lookup(u)
    \/ \E u \in RegUsers, n \in 1..MaxHeld : reg_add_video(u, n)
    \/ \E u \in RegUsers, index \in -1..MaxHeld : reg_remove_video(u, index)
    \/ \E u \in RegUsers, from_idx, to_idx \in 0..MaxHeld : reg_move_video(u, from_idx, to_idx)
    \/ \E u \in RegUsers : reg_clear_all(u)
    \/ \E u \in RegUsers, value \in BOOLEAN : reg_set_is_merging(u, value)
    \/ \E u \in RegUsers : reg_start_command(u)

SpecRegistry == InitRegistry /\ [][NextRegistry]_vars

\* --------------------------------------------------------- the event loop
\* The one thread of the asyncio event loop while an external tool runs for
\* one user: ffmpeg (video_merge_processor.py 258-267) or rclone copy
\* (rclone_upload.py 258-273 and rclone_process_display, 313-347).  A
\* handler at pc "readline" is inside a synchronous call on the loop thread;
\* at every other pc it is suspended in an await.  fs.proc is the external
\* process.

\* Line 325: the empty reads after which rclone_process_display stops.
BlankLimit == 20

Tools == {"ffmpeg", "rclone"}

\* The handler of user u that drives tool, at pc, with the count of empty
\* reads of line 324.
ToolTask(u, tool, pc, blank) ==
    [kind |-> "tool", user |-> u, tool |-> tool, pc |-> pc, blank |-> blank]

\* An update of user u that the loop has not dispatched yet.
Request(u) == [kind |-> "request", user |-> u, tool |-> "none", pc |-> "queued", blank |-> 0]

\* The loop thread is in no handler: it can take the next callback.
LoopFree == \A tk \in Suspended : tk.pc # "readline"

\* The loop did something for user u while the process was in state proc.
Looped(u, name, proc) == [NoEvent EXCEPT !.t = name, !.user = u, !.exit = proc]

InitLoop ==
    /\ MERGE_QUEUE_DB = [u \in RegUsers |-> NoQueue]
    /\ queues = [i \in Heap |-> MergeQueue_init]
    /\ user_data = [u \in RegUsers |-> [upload_mode |-> "telegram"]]
    /\ fs = [videos |-> {}, concat |-> TRUE, out |-> "absent", thumb |-> FALSE,
             proc |-> "none"]
    /\ \E u \in RegUsers, tool \in Tools : tasks = SetToBag({ToolTask(u, tool, "start", 0)})
    /\ ev = NoEvent

\* Line 267 and rclone_upload.py 268: await asyncio.to_thread(...); the
\* worker thread starts the process.
to_thread ==
    \E tk \in Suspended :
        /\ tk.kind = "tool"
        /\ tk.pc = "start"
        /\ LoopFree
        /\ tasks' = Resume(tasks, tk, [tk EXCEPT !.pc = "to_thread"])
        /\ fs' = [fs EXCEPT !.proc = "running"]
        /\ ev' = Looped(tk.user, "to_thread", "running")
        /\ UNCHANGED <<MERGE_QUEUE_DB, queues, user_data>>

\* The external process ends.
process_exits ==
    /\ fs.proc = "running"
    /\ fs' = [fs EXCEPT !.proc = "exited"]
    /\ ev' = Looped(0, "exit", "exited")
    /\ UNCHANGED <<MERGE_QUEUE_DB, queues, user_data, tasks>>

\* Lines 259-267: subprocess.run returned in the worker thread and the
\* handler is resumed with its result.
run_ffmpeg_returns ==
    \E tk \in Suspended :
        /\ tk.kind = "tool" /\ tk.tool = "ffmpeg"
        /\ tk.pc = "to_thread"
        /\ fs.proc = "exited"
        /\ LoopFree
        /\ tasks' = Finish(tasks, tk)
        /\ ev' = Looped(tk.user, "run_ffmpeg", fs.proc)
        /\ UNCHANGED <<MERGE_QUEUE_DB, queues, user_data, fs>>

\* rclone_upload.py 268-271 and 322: subprocess.Popen returned in the worker
\* thread; the handler is resumed, enters rclone_process_display and calls
\* process.stdout.readline().
run_process_returns ==
    \E tk \in Suspended :
        /\ tk.kind = "tool" /\ tk.tool = "rclone"
        /\ tk.pc = "to_thread"
        /\ LoopFree
        /\ tasks' = Resume(tasks, tk, [tk EXCEPT !.pc = "readline"])
        /\ ev' = Looped(tk.user, "run_process", fs.proc)
        /\ UNCHANGED <<MERGE_QUEUE_DB, queues, user_data, fs>>

\* Lines 322-343: rclone wrote a line; readline returns it and the handler
\* goes on to the sleep of line 343.
readline_returns_line ==
    \E tk \in Suspended :
        /\ tk.kind = "tool"
        /\ tk.pc = "readline"
        /\ fs.proc = "running"
        /\ tasks' = Resume(tasks, tk, [tk EXCEPT !.pc = "sleep", !.blank = 0])
        /\ ev' = Looped(tk.user, "readline", fs.proc)
        /\ UNCHANGED <<MERGE_QUEUE_DB, queues, user_data, fs>>

\* Lines 322-327 and 273: the process has exited and readline returns "";
\* after BlankLimit empty reads the loop breaks, process.wait returns at once
\* and rclone_upload returns.
readline_returns_eof ==
    \E tk \in Suspended :
        /\ tk.kind = "tool"
        /\ tk.pc = "readline"
        /\ fs.proc = "exited"
        /\ tasks' = IF tk.blank + 1 >= BlankLimit THEN Finish(tasks, tk)
                    ELSE Resume(tasks, tk, [tk EXCEPT !.pc = "sleep", !.blank = @ + 1])
        /\ ev' = Looped(tk.user, "eof", fs.proc)
        /\ UNCHANGED <<MERGE_QUEUE_DB, queues, user_data, fs>>

\* Lines 327 and 343: the sleep is over and the handler reads again.
sleep_returns ==
    \E tk \in Suspended :
        /\ tk.kind = "tool"
        /\ tk.pc = "sleep"
        /\ LoopFree
        /\ tasks' = Resume(tasks, tk, [tk EXCEPT !.pc = "readline"])
        /\ ev' = Looped(tk.user, "sleep", fs.proc)
        /\ UNCHANGED <<MERGE_QUEUE_DB, queues, user_data, fs>>

\* main.py 133-141: an update of another user arrives at the webhook.
request_arrives(u) ==
    /\ HasFreeSlot
    /\ \A tk \in Suspended : tk.user # u
    /\ tasks' = Spawn(tasks, Request(u))
    /\ ev' = Looped(u, "arrive", fs.proc)
    /\ UNCHANGED <<MERGE_QUEUE_DB, queues, user_data, fs>>

\* The loop runs the handler of a queued update.
handle_request ==
    \E tk \in Suspended :
        /\ tk.kind = "request"
        /\ LoopFree
        /\ tasks' = Finish(tasks, tk)
        /\ ev' = Looped(tk.user, "handled", fs.proc)
        /\ UNCHANGED <<MERGE_QUEUE_DB, queues, user_data, fs>>

NextLoop ==
    \/ to_thread
    \/ process_exits
    \/ run_ffmpeg_returns
    \/ run_process_returns
    \/ readline_returns_line
    \/ readline_returns_eof
    \/ sleep_returns
    \/ \E u \in RegUsers : request_arrives(u)
    \/ handle_request

SpecLoop == InitLoop /\ [][NextLoop]_vars

\* ------------------------------------------------- one accepted merge
\* One call of execute_smart_merge that has acquired the guard and passed
\* the preconditions, followed to its return while the user goes on
\* uploading, clearing and restarting.  No await of the call can be
\* cancelled: nothing in the handlers calls Task.cancel or wait_for on it.

\* The queues an accepted call can find: two items or more.
AcceptedQueues ==
    {videos \in [1..2 -> {VideoMetadata(m, 5) : m \in Messages}] :
        videos[1].file_id # videos[2].file_id}

InitAccepted ==
    /\ MERGE_QUEUE_DB = [u \in Users |-> get_or_create_queue(u)]
    /\ \E videos \in AcceptedQueues :
          /\ queues = [i \in QueueIds |->
                          IF i \in Users
                          THEN AcquireGuard([MergeQueue_init EXCEPT !.videos = videos])
                          ELSE MergeQueue_init]
          /\ fs = [videos |-> PathsOf(videos), concat |-> FALSE, out |-> "absent",
                   thumb |-> FALSE]
    /\ \E mode \in UploadModes \ {"none"} :
          /\ user_data = [u \in Users |-> [upload_mode |-> mode]]
          /\ tasks = SetToBag({ExecTask(u, get_or_create_queue(u), "prep", mode,
                                        "none", "none", FALSE) : u \in Users})
    /\ ev = NoEvent

\* The steps of the call: each is the return (or the failure) of the await
\* the call is suspended in; subprocess.run has timeout=3600 (line 264).
ExecStep ==
    \/ status_message_fails
    \/ build_manifest
    \/ empty_plan_return
    \/ empty_plan_notice_fails
    \/ \E written \in Sizes, made \in BOOLEAN : engine_exits_zero(written, made)
    \/ \E written \in Sizes : corrupt_output_return(written)
    \/ \E written \in {"absent", "small"} : engine_failure_return(written)
    \/ \E written \in {"absent", "small"} : engine_times_out(written)
    \/ \E outcome \in {"ok", "swallowed"} : dispatch_return(outcome)
    \/ dispatch_raises

NextAccepted ==
    \/ \E u \in Users : start_command(u)
    \/ \E u \in Users, mode \in UploadModes \ {"none"} : select_upload_mode(u, mode)
    \/ \E u \in Users : merge_clear(u)
    \/ \E u \in Users : merge_confirm(u)
    \/ \E u \in Users, m \in Messages : handle_files(u, m)
    \/ \E dur \in Durations : process_merge_video(dur)
    \/ \E sent \in BOOLEAN : upload_return(sent)
    \/ ExecStep

\* The event loop resumes a handler whose awaited call has returned or
\* failed.
SpecAccepted == InitAccepted /\ [][NextAccepted]_vars /\ WF_vars(ExecStep)

\* ------------------------------------------- two users' working files
\* Two accepted calls of execute_smart_merge, one per user, with the files
\* they share: concat_list.txt (line 199) and TEMP_FOLDER/<merged_filename>,
\* "merged_video.mp4" unless the user named it (lines 174, 226).  fs.concat
\* and fs.out hold what the files contain.

NoFile == [exists |-> FALSE, by |-> 0, lines |-> <<>>]

\* A working file written by the call of user u from manifest lines.
FileOf(u, lines) == [exists |-> TRUE, by |-> u, lines |-> lines]

\* The call of user u at pc; wrote: the manifest it wrote; ran: whether its
\* ffmpeg produced an output.
MergeTask(u, pc, wrote, ran) ==
    [kind |-> "merge", user |-> u, pc |-> pc, wrote |-> wrote, ran |-> ran]

\* The queue of user u: two items of their own, in either order.
OwnQueues(u) ==
    { <<VideoMetadata(Upload(10 * u + a), 5), VideoMetadata(Upload(10 * u + b), 5)>> :
        a \in 1..2, b \in 1..2 } \ { <<VideoMetadata(Upload(10 * u + a), 5),
                                       VideoMetadata(Upload(10 * u + a), 5)>> : a \in 1..2 }

\* A step of the call of user u: what it read, what it had written.
Merged(u, name, exit, read, own) ==
    [NoEvent EXCEPT !.t = name, !.user = u, !.exit = exit, !.arg = <<read, own>>]

InitShared ==
    /\ MERGE_QUEUE_DB = [u \in RegUsers |-> u]
    /\ \E chosen \in [RegUsers -> UNION {OwnQueues(u) : u \in RegUsers}] :
          /\ \A u \in RegUsers : chosen[u] \in OwnQueues(u)
          /\ queues = [i \in Heap |->
                          IF i \in RegUsers
                          THEN AcquireGuard([MergeQueue_init EXCEPT !.videos = chosen[i]])
                          ELSE MergeQueue_init]
          /\ fs = [videos |-> UNION {PathsOf(chosen[u]) : u \in RegUsers},
                   concat |-> NoFile, out |-> NoFile, thumb |-> FALSE]
    /\ user_data = [u \in RegUsers |-> [upload_mode |-> "telegram"]]
    /\ tasks = SetToBag({MergeTask(u, "prep", <<>>, FALSE) : u \in RegUsers})
    /\ ev = NoEvent

\* The return of the call of user u: clear_all when clearing (lines 353-354,
\* 383), os.remove of the two working files, the finally clause.
SharedReturn(tk, clearing) ==
    LET q == MERGE_QUEUE_DB[tk.user]
        c == clear_all(queues[q], fs.videos)
    IN  /\ tasks' = Finish(tasks, tk)
        /\ queues' = [queues EXCEPT ![q] = IF clearing THEN FinallyRelease(c.queue)
                                           ELSE FinallyRelease(@)]
        /\ fs' = [fs EXCEPT !.videos = IF clearing THEN c.files ELSE @,
                            !.concat = NoFile, !.out = NoFile]
        /\ UNCHANGED <<MERGE_QUEUE_DB, user_data>>

\* Lines 198-236: the manifest is written to concat_list.txt and read back;
\* the call is then suspended in the status edit of line 229.
write_manifest(u) ==
    \E tk \in Suspended :
        LET lines == Manifest(queues[MERGE_QUEUE_DB[u]].videos, fs.videos)
        IN  /\ tk.kind = "merge" /\ tk.user = u
            /\ tk.pc = "prep"
            /\ ~PlanIsEmpty(lines)
            /\ fs' = [fs EXCEPT !.concat = FileOf(u, lines)]
            /\ tasks' = Resume(tasks, tk, [tk EXCEPT !.pc = "engine", !.wrote = lines])
            /\ ev' = Merged(u, "manifest", "written", lines, lines)
            /\ UNCHANGED <<MERGE_QUEUE_DB, queues, user_data>>

\* Lines 240-330: ffmpeg reads concat_list.txt as it is now and writes the
\* output file; the call is then suspended in the status edit of line 321.
\* ffmpeg fails when the manifest or a file it lists is gone (270-293).
run_ffmpeg(u) ==
    \E tk \in Suspended :
        LET read == fs.concat
            readable == read.exists /\ \A i \in 1..Len(read.lines) : read.lines[i] \in fs.videos
        IN  /\ tk.kind = "merge" /\ tk.user = u
            /\ tk.pc = "engine"
            /\ IF readable
               THEN /\ fs' = [fs EXCEPT !.out = FileOf(u, read.lines)]
                    /\ tasks' = Resume(tasks, tk, [tk EXCEPT !.pc = "upload", !.ran = TRUE])
                    /\ ev' = Merged(u, "engine", "validated", read.lines, tk.wrote)
                    /\ UNCHANGED <<MERGE_QUEUE_DB, queues, user_data>>
               ELSE /\ SharedReturn(tk, FALSE)
                    /\ ev' = Merged(u, "engine", "EngineNonZero", read.lines, tk.wrote)

\* Lines 332-397 and _upload_to_telegram 411-455: the file now at the output
\* path is sent; when it is gone open() raises and the handler of line 370
\* runs.  Either way the queue is cleared and the working files removed.
deliver(u) ==
    \E tk \in Suspended :
        /\ tk.kind = "merge" /\ tk.user = u
        /\ tk.pc = "upload"
        /\ SharedReturn(tk, TRUE)
        /\ ev' = IF fs.out.exists
                 THEN Merged(u, "delivered", "Delivered", fs.out.lines, tk.wrote)
                 ELSE Merged(u, "delivered", "DeliveryRaised", <<>>, tk.wrote)

NextShared ==
    \/ \E u \in RegUsers : write_manifest(u)
    \/ \E u \in RegUsers : run_ffmpeg(u)
    \/ \E u \in RegUsers : deliver(u)

SpecShared == InitShared /\ [][NextShared]_vars

\* ------------------------------------------- uploads during a merge
\* One accepted call of execute_smart_merge and the uploads, clears and
\* restarts of its user while it runs.  fs.manifest holds the lines the call
\* wrote to concat_list.txt (lines 199-208), which ffmpeg reads (-i
\* concat_file, line 245).

InitDuring ==
    /\ MERGE_QUEUE_DB = [u \in Users |-> get_or_create_queue(u)]
    /\ \E videos \in AcceptedQueues :
          /\ queues = [i \in QueueIds |->
                          IF i \in Users
                          THEN AcquireGuard([MergeQueue_init EXCEPT !.videos = videos])
                          ELSE MergeQueue_init]
          /\ fs = [videos |-> PathsOf(videos), concat |-> FALSE, out |-> "absent",
                   thumb |-> FALSE, manifest |-> <<>>]
    /\ \E mode \in UploadModes \ {"none"} :
          /\ user_data = [u \in Users |-> [upload_mode |-> mode]]
          /\ tasks = SetToBag({ExecTask(u, get_or_create_queue(u), "prep", mode,
                                        "none", "none", FALSE) : u \in Users})
    /\ ev = NoEvent

\* Lines 196-236, as build_manifest, with the lines written kept.
write_concat_list ==
    \E tk \in Suspended :
        LET lines == Manifest(queues[tk.q].videos, fs.videos)
        IN  /\ tk.kind = "exec"
            /\ tk.pc = "prep"
            /\ ~PlanIsEmpty(lines)
            /\ fs' = [WithManifest(fs) EXCEPT !.manifest = lines]
            /\ tasks' = Resume(tasks, tk, [tk EXCEPT !.pc = "engine"])
            /\ ev' = [Built(tk.user, tk.q) EXCEPT !.arg = lines]
            /\ UNCHANGED <<MERGE_QUEUE_DB, queues, user_data>>

\* The call of user u that is past its manifest.
ManifestBuiltBy(ts, u) ==
    {tk \in BagToSet(ts) : tk.kind = "exec" /\ tk.user = u /\ tk.pc # "prep"}

NextDuring ==
    \/ \E u \in Users : start_command(u)
    \/ \E u \in Users : merge_clear(u)
    \/ \E u \in Users, m \in Messages : handle_files(u, m)
    \/ \E dur \in Durations : process_merge_video(dur)
    \/ \E sent \in BOOLEAN : upload_return(sent)
    \/ status_message_fails
    \/ write_concat_list
    \/ empty_plan_return
    \/ empty_plan_notice_fails
    \/ \E written \in Sizes, made \in BOOLEAN : engine_exits_zero(written, made)
    \/ \E written \in Sizes : corrupt_output_return(written)
    \/ \E written \in {"absent", "small"} : engine_failure_return(written)
    \/ \E written \in {"absent", "small"} : engine_times_out(written)
    \/ \E outcome \in {"ok", "swallowed"} : dispatch_return(outcome)
    \/ dispatch_raises

SpecDuring == InitDuring /\ [][NextDuring]_vars

\* ------------------------------------------- the summary message
\* process_merge_video, lines 56-90, with the chat it writes to: fs.sent
\* counts the summary messages Telegram has stored for the chat (their ids
\* are 1..fs.sent, in the order stored) and fs.deleted holds the ids
\* delete_message was called with.

\* The uploads offered to one queue.
MaxOffered == 4

\* The n-th upload of a chat: a file of its own under a message id of its own.
Nth(n) == [file_name |-> "v", msg_id |-> n]

\* A call of process_merge_video suspended at pc ("delete": in
\* delete_message; "reply": in reply_text before Telegram stored the
\* message; "replied": in reply_text with the stored message msg on its way
\* back).
SummaryTask(u, q, pc, msg) == [kind |-> "summary", user |-> u, q |-> q, pc |-> pc, msg |-> msg]

\* Lines 69-82: the first await of the call after an accepted add.
FirstAwait(queue) ==
    IF Len(queue.videos) = 1 THEN "reply"
    ELSE IF queue.queue_message_id # NoMessage THEN "delete"
    ELSE "reply"

\* Lines 74 and 90: queue.queue_message_id = msg.message_id.
Assigned(queue, msg) == [queue EXCEPT !.queue_message_id = msg]

InitSummary ==
    /\ MERGE_QUEUE_DB = [u \in Users |-> get_or_create_queue(u)]
    /\ queues = [i \in QueueIds |-> MergeQueue_init]
    /\ user_data = [u \in Users |-> [upload_mode |-> "telegram"]]
    /\ fs = [offered |-> 0, sent |-> 0, deleted |-> {}]
    /\ tasks = EmptyBag
    /\ ev = NoEvent

\* Lines 27-82 up to the first await: the probe, add_video, then
\* delete_message is called with the id the queue holds, or reply_text.
summary_add(u) ==
    LET q == get_or_create_queue(u)
        m == Nth(fs.offered + 1)
        after == add_video(queues[q], VideoMetadata(m, 5))
        pc == FirstAwait(after)
    IN  /\ HasFreeSlot
        /\ fs.offered < MaxOffered
        /\ after # queues[q]
        /\ queues' = [queues EXCEPT ![q] = after]
        /\ fs' = [fs EXCEPT !.offered = @ + 1,
                            !.deleted = IF pc = "delete"
                                        THEN @ \cup {after.queue_message_id} ELSE @]
        /\ tasks' = Spawn(tasks, SummaryTask(u, q, pc, NoMessage))
        /\ ev' = Offered(u, q, m, "accepted", after)
        /\ UNCHANGED <<MERGE_QUEUE_DB, user_data>>

\* Lines 77-87: delete_message returns or raises (the exception is logged);
\* reply_text is called.
delete_returns(ok) ==
    \E tk \in Suspended :
        /\ tk.pc = "delete"
        /\ tasks' = Resume(tasks, tk, [tk EXCEPT !.pc = "reply"])
        /\ ev' = [NoEvent EXCEPT !.t = "deleted", !.user = tk.user, !.q = tk.q,
                                 !.exit = IF ok THEN "ok" ELSE "logged"]
        /\ UNCHANGED <<MERGE_QUEUE_DB, queues, user_data, fs>>

\* Telegram stores the message of a reply_text call under the next id.
reply_stored ==
    \E tk \in Suspended :
        /\ tk.pc = "reply"
        /\ fs' = [fs EXCEPT !.sent = @ + 1]
        /\ tasks' = Resume(tasks, tk, [tk EXCEPT !.pc = "replied", !.msg = fs.sent + 1])
        /\ ev' = [NoEvent EXCEPT !.t = "stored", !.user = tk.user, !.q = tk.q]
        /\ UNCHANGED <<MERGE_QUEUE_DB, queues, user_data>>

\* Lines 99-102: reply_text raises; the handler of line 99 replies with the
\* error and the call returns without an assignment.
reply_fails ==
    \E tk \in Suspended :
        /\ tk.pc = "reply"
        /\ tasks' = Finish(tasks, tk)
        /\ ev' = [NoEvent EXCEPT !.t = "summary", !.user = tk.user, !.q = tk.q,
                                 !.exit = "failed", !.queue = queues[tk.q]]
        /\ UNCHANGED <<MERGE_QUEUE_DB, queues, user_data, fs>>

\* Lines 74, 90 and 97: reply_text returns the message; its id is assigned
\* and the call returns.
reply_returns ==
    \E tk \in Suspended :
        LET after == Assigned(queues[tk.q], tk.msg)
        IN  /\ tk.pc = "replied"
            /\ queues' = [queues EXCEPT ![tk.q] = after]
            /\ tasks' = Finish(tasks, tk)
            /\ ev' = [NoEvent EXCEPT !.t = "summary", !.user = tk.user, !.q = tk.q,
                                     !.exit = "assigned", !.queue = after]
            /\ UNCHANGED <<MERGE_QUEUE_DB, user_data, fs>>

NextSummary ==
    \/ \E u \in Users : summary_add(u)
    \/ \E ok \in BOOLEAN : delete_returns(ok)
    \/ reply_stored
    \/ reply_fails
    \/ reply_returns

SpecSummary == InitSummary /\ [][NextSummary]_vars

\* ---------------------------------------------------------------- claims
\* The calls of execute_smart_merge that were accepted (guard acquired,
\* preconditions passed) and have not returned.
InFlight == {tk \in Suspended : tk.kind = "exec" /\ tk.pc \in {"prep", "engine", "upload"}}

\* How many of them run for user u.
ExecsInFlight(u) ==
    LET Mine == {tk \in InFlight : tk.user = u}
    IN  BagCardinality([tk \in Mine |-> tasks[tk]])

\* file_id of an item of a queue equal to the one message m would get.
SameIdentity(v, m) == v.file_id = VideoMetadata(m, 0).file_id

PreconditionExits == {"nomode", "noformat", "few"}
FailureExits == {"EmptyPlan", "EngineNonZero", "EngineTimeout", "CorruptOutput"}
DispatchExits == {"Delivered", "DeliveryFailed", "DeliveryRaised"}

\* C1: for every user at most one accepted merge execution is in flight at
\* any time, whatever triggers, uploads, Clear Queue and /start events were
\* interleaved.
C1_AtMostOneMergeInFlight == \A u \in Users : ExecsInFlight(u) <= 1

\* C2: of two merge triggers racing on one queue exactly one acquires the
\* guard, seeing it false and leaving it true in one step; a trigger that
\* finds the guard true is turned down as "already in progress" and changes
\* neither the queues, the files, the suspended handlers nor user_data.
C2_RacingTriggers ==
    [][ ev'.t = "begin" =>
          /\ queues[ev'.q].is_merging <=> ev'.exit = "busy"
          /\ ev'.exit = "busy" =>
                /\ queues' = queues
                /\ fs' = fs
                /\ tasks' = tasks
                /\ user_data' = user_data
          /\ ev'.exit = "accepted" =>
                /\ ~queues[ev'.q].is_merging
                /\ queues'[ev'.q].is_merging
                /\ BagCardinality(tasks') = BagCardinality(tasks) + 1 ]_vars

\* C2, the case: a trigger was just turned down as busy while the call that
\* holds the guard of the same queue is still in flight.
C2_Witness ==
    /\ ev.t = "begin"
    /\ ev.exit = "busy"
    /\ \E tk \in InFlight : tk.q = ev.q /\ queues[tk.q].is_merging

\* C3: in every reachable state the guard of a queue is true exactly when a
\* merge execution accepted on that queue has not yet returned.
C3_GuardIffInFlight ==
    \A q \in QueueIds : queues[q].is_merging <=> (\E tk \in InFlight : tk.q = q)

\* C4: a Clear Queue request issued while a merge of that user is in flight
\* deletes no backing file, leaves the item list unchanged and leaves the
\* guard true.
C4_ClearRejectedDuringMerge ==
    [][ (ev'.t = "clear" /\ \E tk \in InFlight : tk.q = ev'.q /\ queues[tk.q].is_merging)
            => (queues' = queues /\ fs' = fs) ]_vars

\* C5 as stated: whenever execute_smart_merge returns after having acquired
\* the guard, by any exit path (a precondition rejection included), the
\* guard of the queue it ran on is false at the moment of return.
C5_GuardFalseAtEveryReturn == ev.t = "ret" => ~ev.queue.is_merging

\* C5 as amended: on every exit path after the preconditions passed the
\* guard of the queue the call ran on is false at the moment of return; on a
\* precondition rejection the guard is false again when the stretch that set
\* it ends, before the rejection is answered.
C5_GuardReleased ==
    /\ (ev.t = "ret" /\ ev.exit \notin PreconditionExits) => ~ev.queue.is_merging
    /\ (ev.t = "begin" /\ ev.exit \in PreconditionExits) => ~ev.queue.is_merging

\* C5, the case: a call returns through the engine-failure path, which does
\* not clear the queue, so only the release of the guard ends the merge.
C5_Witness ==
    /\ ev.t = "ret"
    /\ ev.exit = "EngineNonZero"
    /\ Len(ev.queue.videos) >= 2

\* C6: when a merge ends in EmptyPlan, an engine failure (non-zero exit or
\* timeout) or CorruptOutput, the queue it ran on is cleared (no items, no
\* message handle, their backing files deleted) and its guard is false.
C6_FailedMergeClearsQueue ==
    (ev.t = "ret" /\ ev.exit \in FailureExits) =>
        /\ ev.queue = MergeQueue_init
        /\ ev.paths \cap fs.videos = {}

\* C7: on every exit path of a merge execution, the working files the
\* execution wrote (manifest, output, thumbnail) no longer exist when it
\* returns.
C7_WorkingFilesRemoved ==
    ev.t = "ret" =>
        /\ "concat" \in ev.made => ~fs.concat
        /\ "out" \in ev.made => fs.out = "absent"
        /\ "thumb" \in ev.made => ~fs.thumb

\* C8: once a merge execution has reached the dispatch step, the queue it
\* ran on is cleared when it returns (no items, backing files deleted, guard
\* false, no message handle), whether the delivery succeeded, failed inside
\* the transport or raised.
C8_DispatchClearsQueue ==
    (ev.t = "ret" /\ ev.exit \in DispatchExits) =>
        /\ ev.queue.videos = <<>>
        /\ ev.queue.queue_message_id = NoMessage
        /\ ~ev.queue.is_merging
        /\ ev.paths \cap fs.videos = {}

\* C8, the case: a call whose delivery failed returns, and the queue held
\* items with backing files when the transport ended.
C8_Witness ==
    /\ ev.t = "ret"
    /\ ev.exit \in {"DeliveryFailed", "DeliveryRaised"}
    /\ ev.paths # {}

\* C9: a merge start request on a queue with fewer than 2 items is turned
\* down with the guard as it was (no other handler can see it true because
\* of the request), no call goes on to the engine and no queue or file
\* changes.
C9_FewItemsRejected ==
    [][ (ev'.t = "begin" /\ Len(queues[ev'.q].videos) < 2) =>
          /\ ev'.exit \in PreconditionExits
          /\ queues' = queues
          /\ fs' = fs
          /\ {tk \in BagToSet(tasks') : tk.pc # "rej"} = {tk \in Suspended : tk.pc # "rej"} ]_vars

\* C9, the case: a request on a queue of one item was just turned down for
\* having too few items.
C9_Witness ==
    /\ ev.t = "begin"
    /\ ev.exit = "few"
    /\ Len(ev.queue.videos) = 1

\* No two items of one queue have the same file_id.
UniqueIdentities(queue) ==
    \A i, j \in 1..Len(queue.videos) :
        queue.videos[i].file_id = queue.videos[j].file_id => i = j

\* C10: no reachable queue holds two items of equal identity (file_id), and
\* offering a message whose identity equals that of a queued item is turned
\* down and leaves every queue as it was.
C10_UniqueIdentity ==
    /\ [](\A q \in QueueIds : UniqueIdentities(queues[q]))
    /\ [][ (ev'.t = "add"
            /\ \E i \in 1..Len(queues[ev'.q].videos) :
                   SameIdentity(queues[ev'.q].videos[i], ev'.item))
              => (ev'.exit \in {"rejected", "notfound"} /\ queues' = queues) ]_vars

\* C10, the case: a message was turned down whose file_id equals that of a
\* queued item that came from another message.
C10_Witness ==
    /\ ev.t = "add"
    /\ ev.exit = "rejected"
    /\ \E i \in 1..Len(ev.queue.videos) :
          /\ SameIdentity(ev.queue.videos[i], ev.item)
          /\ ev.queue.videos[i].msg_id # ev.item.msg_id

\* str.lower() on the display names in use (video_merge_file_handler.py 29):
\* upper-case letters fold onto lower-case ones, every other character stays.
LowerCase(name) ==
    CASE name \in {"A.MP4", "A.mp4", "a.MP4", "a.mp4"} -> "a.mp4"
      [] name \in {"A.MP41", "A.mp41", "a.MP41", "a.mp41"} -> "a.mp41"
      [] OTHER -> name

SameNameIgnoringCase(v, w) == LowerCase(v.file_name) = LowerCase(w.file_name)

\* C11: no registered queue holds two items whose display names are equal
\* ignoring case.
C11_UniqueNamesIgnoringCase ==
    \A u \in Users :
        MERGE_QUEUE_DB[u] # NoQueue =>
            LET videos == queues[MERGE_QUEUE_DB[u]].videos IN
            \A i, j \in 1..Len(videos) :
                SameNameIgnoringCase(videos[i], videos[j]) => i = j

\* A file on disk that nothing refers to: no item of a queue object is backed
\* by it and no upload still in flight has it as its download target.
Orphan(path) ==
    /\ path \in fs.videos
    /\ \A q \in QueueIds : path \notin PathsOf(queues[q].videos)
    /\ \A tk \in Suspended : tk.kind = "upload" => file_path(tk.item) # path

\* C15: when the queue's add turns an offered item down, the upload handler
\* has deleted the offered file by the time it finishes: no orphan remains.
C15_RejectedFileDeleted ==
    (ev.t = "add" /\ ev.exit = "rejected") => ~Orphan(file_path(ev.item))

BuildExits == {"EmptyPlan", "EmptyPlanNoticeFailed"}

\* The calls past the manifest: at ffmpeg or at the delivery.
PastManifest == {tk \in Suspended : tk.kind = "exec" /\ tk.pc \notin {"rej", "prep"}}

\* C20: when the manifest is built while no item of the queue has its file
\* on disk, the call returns with the empty-plan failure: it does not go on
\* to ffmpeg or to a delivery, and the queue it ran on has its guard false.
C20_EmptyPlanFails ==
    [][ ( /\ \/ ev'.t = "built"
             \/ ev'.t = "ret" /\ ev'.exit \in BuildExits
          /\ Manifest(queues[ev'.q].videos, fs.videos) = <<>> )
        => /\ ev'.t = "ret"
           /\ ~ev'.queue.is_merging
           /\ PastManifest' \subseteq PastManifest
           /\ fs'.out = fs.out ]_vars

C20_Witness ==
    /\ ev.t = "ret"
    /\ ev.exit = "EmptyPlan"
    /\ ~ev.queue.is_merging

\* C12: no queue object ever holds more than 20 items, and an add offered to
\* a queue of 20 items leaves its items as they are and is turned down,
\* whatever adds, removes, moves and clears came before.
C12_AtMostTwentyItems ==
    /\ [](\A q \in QueueIds : Len(queues[q].videos) <= MaxVideos)
    /\ [][ (ev'.t = "add_video" /\ Len(queues[ev'.q].videos) >= MaxVideos)
           => /\ ev'.exit # "none"
              /\ queues'[ev'.q].videos = queues[ev'.q].videos ]_vars

\* C12, the case: a message not yet queued, with a duration above 0, is
\* offered to a queue of 20 items and turned down.
C12_Witness ==
    /\ ev.t = "add_video"
    /\ ev.exit = "capacity"
    /\ ev.arg = <<5>>
    /\ Len(ev.queue.videos) = MaxVideos
    /\ ev.item.msg_id \notin QueuedIds(ev.queue)

C14_FirstViolatedRuleReported ==
    [][ ev'.t = "add_video" =>
          LET queue == queues[ev'.q]
              metadata == VideoMetadata(ev'.item, ev'.arg[1])
          IN  ev'.exit =
                IF metadata.duration = 0 THEN "duration"
                ELSE IF \E i \in 1..Len(queue.videos) :
                            SameNameIgnoringCase(queue.videos[i], metadata)
                     THEN "name"
                ELSE IF \E i \in 1..Len(queue.videos) :
                            queue.videos[i].file_id = metadata.file_id
                     THEN "identity"
                ELSE IF Len(queue.videos) >= MaxVideos THEN "capacity"
                ELSE "none" ]_vars

\* An index that names no position of the list (positions count from 0).
OutOfRange(queue, index) == index < 0 \/ index >= Len(queue.videos)

\* C16: remove_video with an index out of range, and move_video with either
\* index out of range, return False (they do not raise) and leave the items,
\* the files, the message handle and the guard as they were; the empty queue
\* included.
C16_OutOfRangeIsRefused ==
    [][ LET queue == queues[ev'.q] IN
        ( \/ ev'.t = "remove_video" /\ OutOfRange(queue, ev'.arg[1])
          \/ ev'.t = "move_video" /\ ( \/ OutOfRange(queue, ev'.arg[1])
                                        \/ OutOfRange(queue, ev'.arg[2]) ) )
        => /\ ev'.exit = "False"
           /\ queues'[ev'.q] = queue
           /\ fs' = fs ]_vars

\* C16, the case: a negative index is refused on a queue that has items and
\* a file a removal would have deleted.
C16_Witness ==
    /\ ev.t = "remove_video"
    /\ ev.arg = <<-1>>
    /\ ev.exit = "False"
    /\ Len(ev.queue.videos) >= 2
    /\ ev.queue.is_merging
    /\ PathsOf(ev.queue.videos) \subseteq fs.videos

\* C17: after clear_all the object has no items, no message handle and a
\* false guard, and no file of a former item is left; on a queue that was
\* empty already no file is deleted, and a second clear_all changes nothing.
C17_ClearResetsEverything ==
    [][ ev'.t = "clear_all" =>
          LET queue == queues[ev'.q] IN
          /\ queues'[ev'.q] = MergeQueue_init
          /\ fs'.videos = fs.videos \ PathsOf(queue.videos)
          /\ queue.videos = <<>> => fs' = fs
          /\ clear_all(queues'[ev'.q], fs'.videos) =
                 [queue |-> queues'[ev'.q], files |-> fs'.videos] ]_vars

\* C17, the case: a queue with items is cleared while other files stay.
C17_Witness ==
    /\ ev.t = "clear_all"
    /\ ev.paths # {}
    /\ ev.paths \cap fs.videos = {}
    /\ fs.videos # {}
    /\ queues[ev.q] = MergeQueue_init

Attributes == {"codec", "resolution", "fps", "has_audio"}

\* C18: get_validation_warnings returns, for each of codec, resolution, frame
\* rate and audio presence, one warning when the queue has at least 2 items
\* that take more than one value for it and none otherwise, and nothing else;
\* for fewer than 2 items the list is empty; the queue is left as it was.
C18_OneWarningPerDifferingAttribute ==
    [][ ev'.t = "get_validation_warnings" =>
          LET videos == queues[ev'.q].videos
              warnings == ev'.arg
          IN  /\ \A a \in Attributes :
                    Cardinality({i \in 1..Len(warnings) : warnings[i] = a}) =
                        IF Len(videos) >= 2 /\ Cardinality(ValuesOf(videos, a)) > 1
                        THEN 1 ELSE 0
              /\ \A i \in 1..Len(warnings) : warnings[i] \in Attributes
              /\ Len(videos) < 2 => warnings = <<>>
              /\ queues' = queues
              /\ fs' = fs ]_vars

\* C18, the case: two items that differ in audio presence and in frame rate
\* and agree in codec and resolution.
C18_Witness ==
    /\ ev.t = "get_validation_warnings"
    /\ ev.arg = <<"fps", "has_audio">>
    /\ Len(ev.queue.videos) = 2
    /\ ev.queue.videos[1].codec = ev.queue.videos[2].codec

Surviving(videos, files) == {i \in 1..Len(videos) : file_path(videos[i]) \in files}

\* C21: the manifest has one line for each queued item whose file exists when
\* it is built, in the order of the queue, and no other line; with a file
\* missing and another present the call still goes on to ffmpeg.
C21_ManifestListsSurvivors ==
    [][ ( \/ ev'.t = "built"
          \/ ev'.t = "ret" /\ ev'.exit \in BuildExits )
        => LET videos == queues[ev'.q].videos
               K == Surviving(videos, fs.videos)
               lines == ev'.arg
           IN  /\ K # {} => ev'.t = "built"
               /\ ev'.t = "built" =>
                     /\ Len(lines) = Cardinality(K)
                     /\ \A i \in K :
                           lines[Cardinality({j \in K : j <= i})] = file_path(videos[i]) ]_vars

\* C21, the case: of three queued items the second has lost its file; the
\* manifest lists the first and the third.
C21_Witness ==
    /\ ev.t = "built"
    /\ Len(queues[ev.q].videos) = 3
    /\ Surviving(queues[ev.q].videos, fs.videos) = {1, 3}
    /\ ev.arg = <<file_path(queues[ev.q].videos[1]), file_path(queues[ev.q].videos[3])>>
    /\ ev.arg[1] # ev.arg[2]

\* The number of calls of execute_smart_merge suspended at pc.
StageCount(ts, pc) ==
    LET At == {tk \in BagToSet(ts) : tk.kind = "exec" /\ tk.pc = pc}
    IN  BagCardinality([tk \in At |-> ts[tk]])

\* C22: a call enters the manifest stage only by being accepted, the engine
\* stage only from the manifest stage, and the delivery only from the engine
\* stage, after ffmpeg returned 0 and with an output of at least 1024 bytes on
\* disk; a delivery outcome is returned only from the delivery stage, and a
\* call that returns CorruptOutput started no delivery.
C22_StagesInOrder ==
    [][ /\ StageCount(tasks', "prep") > StageCount(tasks, "prep")
           => ev'.t = "begin" /\ ev'.exit = "accepted"
        /\ StageCount(tasks', "engine") > StageCount(tasks, "engine")
           => /\ ev'.t = "built"
              /\ StageCount(tasks', "prep") < StageCount(tasks, "prep")
        /\ StageCount(tasks', "upload") > StageCount(tasks, "upload")
           => /\ ev'.t = "validated"
              /\ ev'.arg = <<0>>
              /\ fs'.out \in {"ok", "big"}
              /\ StageCount(tasks', "engine") < StageCount(tasks, "engine")
        /\ (ev'.t = "ret" /\ ev'.exit \in DispatchExits)
           => StageCount(tasks', "upload") < StageCount(tasks, "upload")
        /\ (ev'.t = "ret" /\ ev'.exit = "CorruptOutput")
           => /\ StageCount(tasks', "engine") < StageCount(tasks, "engine")
              /\ StageCount(tasks', "upload") = StageCount(tasks, "upload") ]_vars

\* C22, the case: ffmpeg returned 0 and left a file of fewer than 1024
\* bytes; the call returned CorruptOutput and removed it.
C22_Witness ==
    /\ ev.t = "ret"
    /\ ev.exit = "CorruptOutput"
    /\ "out" \in ev.made
    /\ fs.out = "absent"

C24_MissingConfigFailsFirst ==
    (ev.t = "rclone_driver" /\ ~fs.conf.exists) => ev.exit = "ConfigMissing"

\* C24 as amended: on a server with the rclone binary the call returns the
\* configuration-missing failure, on one without it the not-installed
\* failure; in both cases it does not go on to rclone_upload.
C24_MissingConfigNeverTransfers ==
    (ev.t = "rclone_driver" /\ ~fs.conf.exists) =>
        /\ ev.exit = IF fs.rclone THEN "ConfigMissing" ELSE "NotInstalled"
        /\ ev.exit # "Transfer"

\* C24, the case: the mode is rclone, the binary is there, the merged file
\* is there, and the configuration is gone.
C24_Witness ==
    /\ ev.t = "rclone_driver"
    /\ user_data[ev.user].upload_mode = "rclone"
    /\ ~fs.conf.exists
    /\ fs.rclone
    /\ fs.out = "ok"
    /\ ev.exit = "ConfigMissing"

\* C25: a configuration without a "[name]" section is turned down when it is
\* uploaded (the file is removed and the mode is not switched by it), and
\* rclone_driver answers it with the configuration-invalid failure and does
\* not go on to rclone_upload.
C25_SectionlessConfigRefused ==
    /\ (ev.t = "conf" /\ ev.exit # "nodownload" /\ ~HasRemote(ev.arg)) =>
           /\ ev.exit = "rejected"
           /\ ~fs.conf.exists
    /\ (ev.t = "rclone_driver" /\ fs.conf.exists /\ ~HasRemote(fs.conf.content)) =>
           ev.exit = "ConfigInvalid"

\* C26: within one delivery attempt exactly one transport is tried.  A call
\* that awaits its transport keeps the transport it selected until it
\* returns, and a return from the dispatch, delivered or failed, has tried
\* that transport and no other.
C26_OneTransportPerAttempt ==
    [][ /\ \A tk \in Suspended :
              (tk.kind = "exec" /\ tk.pc = "upload")
                  => \/ \E after \in BagToSet(tasks') :
                            /\ after.kind = "exec" /\ after.pc = "upload"
                            /\ after.user = tk.user /\ after.path = tk.path
                     \/ ev'.t = "ret" /\ ev'.exit \in DispatchExits
        /\ (ev'.t = "ret" /\ ev'.exit \in DispatchExits)
              => \E tk \in Suspended :
                    /\ tk.kind = "exec" /\ tk.pc = "upload" /\ tk.user = ev'.user
                    /\ tk.path \in {"botapi", "mtproto", "rclone"}
                    /\ ev'.arg = <<tk.path>> ]_vars

C26_Witness ==
    /\ ev.t = "ret"
    /\ ev.exit = "DeliveryFailed"
    /\ ev.arg = <<"mtproto">>

\* The accepted calls of ts that are past the preconditions.
Accepted(ts) == StageCount(ts, "prep") + StageCount(ts, "engine") + StageCount(ts, "upload")

\* C27: nothing raised in an accepted call leaves execute_smart_merge: a
\* call past the preconditions ends only by returning, with the delivery
\* done or with one of the reported failures as its outcome.
C27_NoFailurePropagates ==
    [][ (Accepted(tasks') < Accepted(tasks))
            => /\ ev'.t = "ret"
               /\ ev'.exit \in FailureExits \cup DispatchExits \cup RaisedExits ]_vars

C27_Witness ==
    /\ ev.t = "ret"
    /\ ev.exit = "EngineTimeout"
    /\ ~queues[ev.q].is_merging

\* C28: update_progress sends at most one status edit per 2-second window.
\* An edit is sent at least 2 seconds after the edit sent before it, and a
\* call made less than 2 seconds after the last accepted call, or after the
\* construction of the tracker, sends nothing.
C28_OneEditPerWindow ==
    [][ /\ (ev'.t = "update_progress" /\ ev' # ev /\ ev'.exit = "sent")
              => \A before \in LastEdit(ev) :
                    ev'.arg[2] - before >= THROTTLE * TicksPerSecond
        /\ (ev'.t = "update_progress" /\ ev' # ev
                /\ ev'.arg[2] - ev'.arg[1] < THROTTLE * TicksPerSecond)
              => ev'.exit = "skipped" /\ UNCHANGED <<tasks, fs>> ]_vars

C28_Witness ==
    /\ ev.t = "update_progress"
    /\ ev.exit = "sent"
    /\ \E tk \in Suspended :
          /\ tk.kind = "tracker"
          /\ ev.arg[1] - tk.start_time >= THROTTLE * TicksPerSecond

\* The items and the guard of the queue registered for user v ("none" when
\* the registry has no entry for v).
Owned(db, qs, v) ==
    IF db[v] = NoQueue THEN <<"none">>
    ELSE <<"queue", qs[db[v]].videos, qs[db[v]].is_merging>>

\* C29: the registry maps each user to at most one queue.  No two users
\* share a queue object; a lookup returns the object registered for the
\* user, and for a user without an entry it registers a new object, empty
\* and with guard false; and a handler of one user leaves the entry, the
\* items and the guard of every other user as they were.
C29_OneQueuePerUser ==
    /\ [](\A u, v \in RegUsers :
             (u # v /\ MERGE_QUEUE_DB[u] # NoQueue) => MERGE_QUEUE_DB[u] # MERGE_QUEUE_DB[v])
    /\ [][ /\ (ev'.t # "start_command" /\ ev' # ev)
                => /\ MERGE_QUEUE_DB'[ev'.user] = ev'.q
                   /\ ev'.q # NoQueue
                   /\ MERGE_QUEUE_DB[ev'.user] # NoQueue => ev'.q = MERGE_QUEUE_DB[ev'.user]
                   /\ MERGE_QUEUE_DB[ev'.user] = NoQueue
                         => /\ ev'.q \notin Registered(MERGE_QUEUE_DB)
                            /\ ev'.t = "get_or_create_queue" => ev'.queue = MergeQueue_init
           /\ \A v \in RegUsers :
                 v # ev'.user
                    => /\ MERGE_QUEUE_DB'[v] = MERGE_QUEUE_DB[v]
                       /\ Owned(MERGE_QUEUE_DB', queues', v) = Owned(MERGE_QUEUE_DB, queues, v)
         ]_vars

C29_Witness ==
    /\ ev.t = "clear_all"
    /\ \E v \in RegUsers :
          /\ v # ev.user
          /\ MERGE_QUEUE_DB[v] # NoQueue
          /\ Len(queues[MERGE_QUEUE_DB[v]].videos) = MaxHeld
          /\ queues[MERGE_QUEUE_DB[v]].is_merging
          /\ PathsOf(queues[MERGE_QUEUE_DB[v]].videos) \cap fs.videos = {}

\* C30: /start clears the queue of the user (no items, their files
\* deleted, guard false, no message handle) and removes its registry entry,
\* so that the next lookup for the user gives a new empty queue; for a user
\* without an entry /start leaves the registry as it was.
C30_StartClearsAndRemoves ==
    [][ /\ ev'.t = "start_command"
            => /\ MERGE_QUEUE_DB'[ev'.user] = NoQueue
               /\ \A v \in RegUsers : v # ev'.user => MERGE_QUEUE_DB'[v] = MERGE_QUEUE_DB[v]
               /\ MERGE_QUEUE_DB[ev'.user] # NoQueue
                     => /\ ev'.q = MERGE_QUEUE_DB[ev'.user]
                        /\ ev'.queue.videos = <<>>
                        /\ ~ev'.queue.is_merging
                        /\ ev'.queue.queue_message_id = NoMessage
                        /\ ev'.paths = PathsOf(queues[ev'.q].videos)
                        /\ ev'.paths \cap fs'.videos = {}
               /\ MERGE_QUEUE_DB[ev'.user] = NoQueue => MERGE_QUEUE_DB' = MERGE_QUEUE_DB
        /\ (ev.t = "start_command" /\ ev' # ev /\ ev'.user = ev.user
                /\ ev'.t = "get_or_create_queue")
            => /\ ev'.queue = MergeQueue_init
               /\ ev'.q \notin Registered(MERGE_QUEUE_DB) ]_vars

C30_Witness ==
    /\ ev.t = "start_command"
    /\ ev.q # NoQueue
    /\ Cardinality(ev.paths) = MaxHeld
    /\ MERGE_QUEUE_DB[ev.user] = NoQueue
    /\ \E v \in RegUsers : MERGE_QUEUE_DB[v] # NoQueue

\* C31: while ffmpeg or an rclone transfer runs for one user the event loop
\* is not blocked: an update of another user that is queued while the
\* process runs can be handled before the process ends.
C31_LoopFreeWhileToolRuns ==
    (fs.proc = "running" /\ \E tk \in Suspended : tk.kind = "request") => ENABLED handle_request

\* C32: every accepted merge terminates.  A call that holds the guard and
\* is past the preconditions eventually returns, with the guard of its
\* queue false; and nothing but its own return ends it: no step of another
\* handler takes it out of the stages.
C32_AcceptedMergeTerminates ==
    /\ (Accepted(tasks) > 0)
          ~> (Accepted(tasks) = 0 /\ ev.t = "ret" /\ ~ev.queue.is_merging
                 /\ ~queues[ev.q].is_merging)
    /\ [][ (Accepted(tasks') < Accepted(tasks))
              => (ev'.t = "ret" /\ ev'.exit \notin PreconditionExits) ]_vars

C32_Witness ==
    /\ Accepted(tasks) = 0
    /\ ev.t = "ret"
    /\ ev.exit = "Delivered"
    /\ ~queues[ev.q].is_merging
    /\ MERGE_QUEUE_DB[ev.user] = NoQueue

\* What update_progress was given when it last sent an edit.
Observed == ev.arg[3]
Shown == ev.arg[4]

\* An observation that is not a well-formed progress line: current outside
\* [0, total] or a speed that does not start with a number.
Malformed(obs) ==
    \/ obs.total > 0 /\ (obs.current < 0 \/ obs.current > obs.total)
    \/ obs.speed.kind = "word"

\* C33: update_progress never raises, and on a malformed observation it
\* sends no status edit in that call.
C33_MalformedObservationSendsNothing ==
    (ev.t = "update_progress" /\ ev.exit = "sent") => ~Malformed(Observed)

\* C34: the percentage is current / total as a percentage, 0 when total <= 0,
\* and the bar has exactly 20 cells for every observation.
C34_BarHasTwentyCells ==
    (ev.t = "update_progress" /\ ev.exit = "sent")
        => /\ Observed.total > 0
                 => Shown.percentage.num * Observed.total
                        = 100 * Observed.current * Shown.percentage.den
           /\ Observed.total <= 0 => Shown.percentage.num = 0
           /\ Shown.cells = bar_length

\* C35: a failed preview is not fatal.  When ffmpeg has returned 0 and the
\* output is valid the call goes on to the delivery whatever became of the
\* preview, on the transport its upload mode and the size of the output
\* select; no call returns because of the preview; and a call without a
\* preview can deliver.
C35_PreviewFailureIsNotFatal ==
    /\ [](\A tk \in Suspended :
             (tk.kind = "exec" /\ tk.pc = "upload" /\ ~tk.thumb)
                 => "ok" \in DeliveryOutcomes(tk.path))
    /\ [][ /\ ev'.t = "validated"
               => \E after \in BagToSet(tasks') :
                     /\ after.kind = "exec" /\ after.pc = "upload"
                     /\ after.user = ev'.user
                     /\ after.path = Transport(after.mode, fs'.out)
           /\ ev'.t \in {"ret", "raise"} => ev'.exit # "PreviewRaised" ]_vars

C35_Witness ==
    /\ ev.t = "ret"
    /\ ev.exit = "Delivered"
    /\ ev.arg = <<"botapi">>
    /\ "thumb" \notin ev.made
    /\ fs.out = "absent"

\* C36: overlapping merges of two users do not interfere through working
\* files.  The manifest ffmpeg reads for a user's call is the one that call
\* wrote, and the file delivered to the user is the output of that manifest.
C36_NoInterferenceThroughWorkingFiles ==
    /\ (ev.t = "engine") => ev.arg[1] = ev.arg[2]
    /\ (ev.t = "delivered") => (ev.exit = "Delivered" /\ ev.arg[1] = ev.arg[2])

\* C37: distinct queue items never share a backing file, and an item that
\* is in a queue has its file on disk.
C37_ItemsHaveFilesOfTheirOwn ==
    \A u \in Users :
        MERGE_QUEUE_DB[u] # NoQueue
            => LET videos == queues[MERGE_QUEUE_DB[u]].videos
               IN  /\ \A i, j \in 1..Len(videos) :
                         i # j => file_path(videos[i]) # file_path(videos[j])
                   /\ \A i \in 1..Len(videos) : file_path(videos[i]) \in fs.videos

\* The lines of a manifest, as a set.
Listed(lines) == {lines[i] : i \in 1..Len(lines)}

\* C38: an upload accepted while the merge of its user is past its manifest
\* is not a line of that manifest, and when the merge returns on a dispatch
\* or exception path the queue of the user holds no item and the files of
\* the items it held are deleted.
C38_UploadsDuringMergeAreCleared ==
    [][ /\ (ev'.t = "add" /\ ev'.exit = "accepted"
                /\ ManifestBuiltBy(tasks, ev'.user) # {}) =>
            file_path(VideoMetadata(ev'.item, 5)) \notin Listed(fs.manifest)
        /\ (ev'.t \in {"ret", "raise"} /\ ev' # ev
                /\ ev'.exit \in DispatchExits \cup RaisedExits) =>
            /\ queues'[get_or_create_queue(ev'.user)].videos = <<>>
            /\ PathsOf(queues[get_or_create_queue(ev'.user)].videos)
                   \cap fs'.videos = {} ]_vars

\* The summary messages of the chat that no delete_message call has named.
Live == (1..fs.sent) \ fs.deleted

\* C39: once the upload handlers of a user have returned, every summary
\* message sent before the latest has been deleted or its deletion attempted
\* (at most one is live), and queue_message_id is the id of the summary
\* message sent last.
C39_OneLiveSummary ==
    (tasks = EmptyBag /\ fs.sent > 0) =>
        /\ Live \subseteq {fs.sent}
        /\ \A u \in Users : queues[get_or_create_queue(u)].queue_message_id = fs.sent
====
